---- MODULE Spec2Model ----
(***************************************************************************)
(* A model of configlock: the schedule evaluator and the exclusion set of  *)
(* internal/config, the lock primitive of internal/locker, the enforcement *)
(* daemon's event loop, the temp-unlock command, and the config file's     *)
(* save/load protocol at system-call granularity.                          *)
(*                                                                         *)
(* Strings are tuples of tokens (a character, or a whole file name where   *)
(* its characters never matter), so prefix tests and parsers work on the   *)
(* text as the Go code does.  Time is an integer count of clock units      *)
(* since a Sunday 00:00:00 local time, SubSec units to the second.         *)
(***************************************************************************)
EXTENDS Integers, Sequences, FiniteSets, TLC

VARIABLES
  now,        \* the wall clock (time.Now), in clock units
  tools,      \* which external tools work: [chattr, lsattr, chmod -> BOOLEAN]
  immutable,  \* the regular files carrying the immutable attribute
  perm,       \* permission bits of each regular file (octal digits as decimal)
  disk,       \* the persisted config.json: [ok |-> parses, cfg |-> Config]
  dcfg,       \* Daemon.cfg
  active,     \* Daemon.active
  watches,    \* Daemon.watcher.WatchList()
  timer,      \* deadline of the loop's timer
  dpc,        \* the daemon loop: "running", "enforcing" (inside enforce) or "stopped"
  events,     \* events buffered in Daemon.watcher.Events
  cli,        \* the temp-unlock command in flight
  last,       \* what the last step did (for stating the properties)
  sv          \* the save/load protocol: the config directory and its processes

vars == <<now, tools, immutable, perm, disk, dcfg, active, watches, timer, dpc,
          events, cli, last, sv>>

-----------------------------------------------------------------------------
(* Bounds of the model *)

SubSec == 2
MaxTicks == 6
MaxEvents == 1
MaxSaves == 2

-----------------------------------------------------------------------------
(* Time *)

Second == SubSec
Minute == 60 * Second
Hour == 60 * Minute
Day == 24 * Hour

\* time.Weekday: Sunday = 0 ... Saturday = 6
Weekday(t) == (t \div Day) % 7
HourOf(t) == (t % Day) \div Hour
MinuteOf(t) == (t % Hour) \div Minute

Sunday == 0
Saturday == 6

\* t at weekday d (0..6 of the first week), h:m:s and u clock units
At(d, h, m, s, u) == d * Day + h * Hour + m * Minute + s * Second + u

\* t rounded down to a multiple of unit
Floor(t, unit) == t - (t % unit)

\* The one element of a singleton.  Only({F(x) : x \in {e}}) is F(e) with e
\* evaluated once, so that a loop's state is computed once per iteration.
Only(S) == CHOOSE x \in S : TRUE

MinOf(S) == CHOOSE x \in S : \A y \in S : x <= y

-----------------------------------------------------------------------------
(* Strings and paths *)

HasPrefix(s, p) == Len(p) <= Len(s) /\ SubSeq(s, 1, Len(p)) = p

Contains(s, sub) ==
  \E i \in 1..Len(s) : i + Len(sub) - 1 <= Len(s) /\ SubSeq(s, i, i + Len(sub) - 1) = sub

Separator == <<"/">>

ConfigDir == <<"/", "c">>
ConfigPath == ConfigDir \o <<"/", "j">>
Zshrc == <<"/", "z">>
Nvim == <<"/", "n">>
InitLua == Nvim \o <<"/", "i">>
GitDir == Nvim \o <<"/", ".git">>
GitHead == GitDir \o <<"/", "h">>
Nvim2 == <<"/", "n", "2">>
Nvim2X == Nvim2 \o <<"/", "x">>
Gone == <<"/", "g">>

RegularFiles == {ConfigPath, Zshrc, InitLua, GitHead, Nvim2X}
Directories == {ConfigDir, Nvim, GitDir, Nvim2}

\* os.Stat(path) succeeds
Exists(p) == p \in RegularFiles \cup Directories
IsDir(p) == p \in Directories

\* the regular files in the order of a lexical directory walk
WalkOrder == <<ConfigPath, InitLua, GitHead, Nvim2X, Zshrc>>

\* the directory holding p: p without its last separator and name
Parent(p) ==
  LET seps == {i \in 1..Len(p) : p[i] = "/"}
      k == CHOOSE i \in seps : \A j \in seps : j <= i
  IN  SubSeq(p, 1, k - 1)

\* whether a listing without -a shows p (names starting with a dot are hidden)
Hidden(p) == \E i \in 1..Len(p) : p[i] \in {".git", ".jj"}

-----------------------------------------------------------------------------
(* Clock strings: time.Parse("15:04", s) and time.RFC3339 *)

Digit(c) ==
  CASE c = "0" -> 0 [] c = "1" -> 1 [] c = "2" -> 2 [] c = "3" -> 3 [] c = "4" -> 4
    [] c = "5" -> 5 [] c = "6" -> 6 [] c = "7" -> 7 [] c = "8" -> 8 [] c = "9" -> 9
    [] OTHER -> -1

IsDigit(s, i) == i <= Len(s) /\ Digit(s[i]) >= 0

NoClock == [ok |-> FALSE, h |-> 0, m |-> 0]

\* time.Parse with layout "15:04": an hour of one or two digits below 24, a
\* colon, a minute of exactly two digits below 60, and nothing after it
ParseHHMM(s) ==
  IF ~IsDigit(s, 1) THEN NoClock
  ELSE LET two == IsDigit(s, 2)
           h == IF two THEN 10 * Digit(s[1]) + Digit(s[2]) ELSE Digit(s[1])
           rest == SubSeq(s, IF two THEN 3 ELSE 2, Len(s))
       IN  IF h >= 24 THEN NoClock
           ELSE IF Len(rest) /= 3 \/ rest[1] /= ":" \/ ~IsDigit(rest, 2) \/ ~IsDigit(rest, 3)
             THEN NoClock
           ELSE LET m == 10 * Digit(rest[2]) + Digit(rest[3])
                IN  IF m >= 60 THEN NoClock ELSE [ok |-> TRUE, h |-> h, m |-> m]

\* expiration.Format(time.RFC3339): the text carries whole seconds only
FormatRFC3339(t) == [text |-> "rfc3339", sec |-> t \div Second]

\* time.Parse(time.RFC3339, s)
ParseRFC3339(s) ==
  IF s.text = "rfc3339" THEN [ok |-> TRUE, t |-> s.sec * Second] ELSE [ok |-> FALSE, t |-> 0]

Garbage == [text |-> "garbage", sec |-> 0]

-----------------------------------------------------------------------------
(* Cron expressions (cron.NewParser(Minute | Hour | Dom | Month | Dow)): a   *)
(* tuple of field texts.  The model's clock stays within one month, so the   *)
(* day-of-month and month fields are both "*", or they name the 30th of      *)
(* February, a date that never comes.                                        *)

\* the values a field text stands for; the empty set when it has no meaning
FieldValues(tok, lo, hi) ==
  CASE tok = "*" -> lo..hi
    [] tok = "0" -> {0}
    [] tok = "1" -> {1}
    [] tok = "2" -> {2}
    [] tok = "8" -> {8}
    [] tok = "30" -> {30}
    [] tok = "60" -> {60}
    [] tok = "24" -> {24}
    [] tok = "1-5" -> 1..5
    [] tok = "0-1" -> 0..1
    [] tok = "8-16" -> 8..16
    [] OTHER -> {}

FieldOK(tok, lo, hi) == FieldValues(tok, lo, hi) /= {} /\ FieldValues(tok, lo, hi) \subseteq lo..hi

\* parser.Parse: five fields, each within its range.  never says that the
\* fields name no date of any year (the day-of-week field being "*", the date
\* alone decides).
CronParse(expr) ==
  IF Len(expr) = 5 /\ FieldOK(expr[1], 0, 59) /\ FieldOK(expr[2], 0, 23)
     /\ FieldOK(expr[3], 1, 31) /\ FieldOK(expr[4], 1, 12) /\ FieldOK(expr[5], 0, 6)
  THEN [ok |-> TRUE, minutes |-> FieldValues(expr[1], 0, 59),
        hours |-> FieldValues(expr[2], 0, 23), dows |-> FieldValues(expr[5], 0, 6),
        never |-> expr[3] = "30" /\ expr[4] = "2" /\ expr[5] = "*"]
  ELSE [ok |-> FALSE, minutes |-> {}, hours |-> {}, dows |-> {}, never |-> FALSE]

\* the zero time.Time, which Next returns when it finds no trigger within five
\* years: an instant before every instant of the model
ZeroTime == -1

\* the earliest trigger of day number d at or after minute-of-day mod, or -1
FirstOnDay(sch, d, mod) ==
  IF (d % 7) \notin sch.dows THEN -1
  ELSE LET hu == mod \div 60
           mu == mod % 60
           hs == {h \in sch.hours : h > hu \/ (h = hu /\ \E m \in sch.minutes : m >= mu)}
       IN  IF hs = {} THEN -1
           ELSE LET h == MinOf(hs)
                    m == IF h = hu THEN MinOf({x \in sch.minutes : x >= mu}) ELSE MinOf(sch.minutes)
                IN  d * Day + h * Hour + m * Minute

\* schedule.Next(t): the earliest trigger strictly after t
CronNext(sch, t) ==
  LET u == Floor(t, Minute) + Minute
      d0 == u \div Day
      firsts == {FirstOnDay(sch, d0, (u % Day) \div Minute)}
                  \cup {FirstOnDay(sch, d0 + k, 0) : k \in 1..7}
  IN  IF sch.never THEN ZeroTime ELSE MinOf({x \in firsts : x >= 0})

-----------------------------------------------------------------------------
(* internal/config: the schedule evaluator *)

NoCron == <<>>

isWithinCronSchedule(c, t) ==
  LET schedule == CronParse(c.CronSchedule)
  IN  IF ~schedule.ok THEN FALSE
      ELSE LET currentMinute == Floor(t, Minute)
               oneMinuteAgo == currentMinute - Minute
               nextTrigger == CronNext(schedule, oneMinuteAgo)
           IN  ~(nextTrigger > currentMinute)

\* IsWithinWorkHours with the end time inside the window
IsWithinWorkHoursEndIncluded(c, t) ==
  IF c.CronSchedule /= NoCron THEN isWithinCronSchedule(c, t)
  ELSE IF Weekday(t) = Saturday \/ Weekday(t) = Sunday THEN FALSE
  ELSE LET startTime == ParseHHMM(c.StartTime)
           endTime == ParseHHMM(c.EndTime)
       IN  IF ~startTime.ok THEN FALSE
           ELSE IF ~endTime.ok THEN FALSE
           ELSE LET currentTime == HourOf(t) * 60 + MinuteOf(t)
                    start == startTime.h * 60 + startTime.m
                    end == endTime.h * 60 + endTime.m
                IN  (currentTime = start \/ currentTime > start) /\ ~(currentTime > end)

\* IsWithinWorkHours taking an end time that does not parse for the end of the day
IsWithinWorkHoursOpenEnd(c, t) ==
  IF c.CronSchedule /= NoCron THEN isWithinCronSchedule(c, t)
  ELSE IF Weekday(t) = Saturday \/ Weekday(t) = Sunday THEN FALSE
  ELSE LET startTime == ParseHHMM(c.StartTime)
           endTime == ParseHHMM(c.EndTime)
       IN  IF ~startTime.ok THEN FALSE
           ELSE LET currentTime == HourOf(t) * 60 + MinuteOf(t)
                    start == startTime.h * 60 + startTime.m
                    end == IF endTime.ok THEN endTime.h * 60 + endTime.m ELSE 24 * 60
                IN  (currentTime = start \/ currentTime > start) /\ currentTime < end

IsWithinWorkHours(c, t) ==
  IF c.CronSchedule /= NoCron THEN isWithinCronSchedule(c, t)
  ELSE IF Weekday(t) = Saturday \/ Weekday(t) = Sunday THEN FALSE
  ELSE LET startTime == ParseHHMM(c.StartTime)
           endTime == ParseHHMM(c.EndTime)
       IN  IF ~startTime.ok THEN FALSE
           ELSE IF ~endTime.ok THEN FALSE
           ELSE LET currentTime == HourOf(t) * 60 + MinuteOf(t)
                    start == startTime.h * 60 + startTime.m
                    end == endTime.h * 60 + endTime.m
                IN  (currentTime = start \/ currentTime > start) /\ currentTime < end

timeUntilCronSchedule(c, t) ==
  LET schedule == CronParse(c.CronSchedule)
  IN  IF ~schedule.ok THEN Hour ELSE CronNext(schedule, t) - t

RECURSIVE SkipWeekend(_)
SkipWeekend(u) ==
  IF Weekday(u) = Saturday \/ Weekday(u) = Sunday THEN SkipWeekend(u + Day) ELSE u

TimeUntilWorkHours(c, t) ==
  IF IsWithinWorkHours(c, t) THEN 0
  ELSE IF c.CronSchedule /= NoCron THEN timeUntilCronSchedule(c, t)
  ELSE LET startTime == ParseHHMM(c.StartTime)
       IN  IF ~startTime.ok THEN Hour
           ELSE LET nextStart == Floor(t, Day) + startTime.h * Hour + startTime.m * Minute
                IN  IF t > nextStart \/ Weekday(t) = Saturday \/ Weekday(t) = Sunday
                    THEN SkipWeekend(nextStart + Day) - t
                    ELSE nextStart - t

-----------------------------------------------------------------------------
(* internal/config: paths and temporary exclusions of a Config *)

InList(list, p) == \E i \in 1..Len(list) : list[i] = p

\* AddPath appending without looking for the path
AddPathAlways(c, p) == [c EXCEPT !.LockedPaths = Append(@, p)]

AddPath(c, p) ==
  IF InList(c.LockedPaths, p) THEN c
  ELSE [c EXCEPT !.LockedPaths = Append(@, p)]

RemovePath(c, p) ==
  [c EXCEPT !.LockedPaths = SelectSeq(@, LAMBDA q : q /= p)]

\* the map m with key k set to v
MapPut(m, k, v) == [x \in DOMAIN m \cup {k} |-> IF x = k THEN v ELSE m[x]]

AddTempExclude(c, p, duration, t) ==
  [c EXCEPT !.TempExcludes = MapPut(@, p, FormatRFC3339(t + duration * Minute))]

\* the keys CleanExpiredExcludes deletes
ExpiredKeys(c, t) ==
  {p \in DOMAIN c.TempExcludes :
     LET expiry == ParseRFC3339(c.TempExcludes[p])
     IN  ~expiry.ok \/ expiry.t < t}

CleanExpiredExcludes(c, t) ==
  [cfg |-> [c EXCEPT !.TempExcludes =
                       [p \in DOMAIN @ \ ExpiredKeys(c, t) |-> @[p]]],
   cleaned |-> ExpiredKeys(c, t) /= {}]

\* IsTemporarilyExcluded still excluding at the instant of expiry
IsTemporarilyExcludedAtExpiry(c, p, t) ==
  IF p \notin DOMAIN c.TempExcludes THEN FALSE
  ELSE LET expiry == ParseRFC3339(c.TempExcludes[p])
       IN  IF ~expiry.ok THEN FALSE ELSE ~(expiry.t < t)

\* IsTemporarilyExcluded taking an expiry that does not parse for an exclusion
IsTemporarilyExcludedUnparsed(c, p, t) ==
  IF p \notin DOMAIN c.TempExcludes THEN FALSE
  ELSE LET expiry == ParseRFC3339(c.TempExcludes[p])
       IN  IF ~expiry.ok THEN TRUE ELSE expiry.t > t

\* IsTemporarilyExcluded excluding for as long as an expiry is stored
IsTemporarilyExcludedWhileStored(c, p, t) ==
  IF p \notin DOMAIN c.TempExcludes THEN FALSE
  ELSE LET expiry == ParseRFC3339(c.TempExcludes[p])
       IN  expiry.ok

IsTemporarilyExcluded(c, p, t) ==
  IF p \notin DOMAIN c.TempExcludes THEN FALSE
  ELSE LET expiry == ParseRFC3339(c.TempExcludes[p])
       IN  IF ~expiry.ok THEN FALSE ELSE expiry.t > t

-----------------------------------------------------------------------------
(* internal/fileutil and internal/locker.  fs is the file system's lock     *)
(* state, [immutable |-> set of files, perm |-> file -> mode]; tl says      *)
(* which tools work.  Every result is [fs |-> the state after, err |->      *)
(* whether an error came back].                                             *)

\* the regular files under root, skipping .git and .jj
CollectFilesRecursively(root) ==
  SelectSeq(WalkOrder,
            LAMBDA f : /\ HasPrefix(f, root \o Separator)
                       /\ ~Contains(f, <<"/", ".git", "/">>)
                       /\ ~Contains(f, <<"/", ".jj", "/">>))

\* exec chattr +i / -i: sets or clears the attribute when the tool works
Chattr(tl, fs, f, on) ==
  IF tl.chattr
  THEN [fs |-> [fs EXCEPT !.immutable = IF on THEN @ \cup {f} ELSE @ \ {f}], err |-> FALSE]
  ELSE [fs |-> fs, err |-> TRUE]

\* os.Chmod: refused on an immutable file
Chmod(tl, fs, f, mode) ==
  IF tl.chmod /\ f \notin fs.immutable
  THEN [fs |-> [fs EXCEPT !.perm[f] = mode], err |-> FALSE]
  ELSE [fs |-> fs, err |-> TRUE]

fallbackLock(tl, fs, f) == Chmod(tl, fs, f, 444)

fallbackUnlock(tl, fs, f) == Chmod(tl, fs, f, 644)

\* lockLinux refusing a file that is locked already
lockLinuxOnce(tl, fs, f) ==
  IF f \in fs.immutable \/ fs.perm[f] = 444 THEN [fs |-> fs, err |-> TRUE]
  ELSE LET r == Chattr(tl, fs, f, TRUE)
       IN  IF r.err THEN fallbackLock(tl, fs, f) ELSE r

\* lockLinux without the fallback to chmod
lockLinuxNoFallback(tl, fs, f) == Chattr(tl, fs, f, TRUE)

lockLinux(tl, fs, f) ==
  LET r == Chattr(tl, fs, f, TRUE)
  IN  IF r.err THEN fallbackLock(tl, fs, f) ELSE r

unlockLinux(tl, fs, f) ==
  LET r == Chattr(tl, fs, f, FALSE)
  IN  IF r.err THEN fallbackUnlock(tl, fs, f) ELSE r

RECURSIVE LockEach(_, _, _, _)
LockEach(tl, fs, files, lastErr) ==
  IF files = <<>> THEN [fs |-> fs, err |-> lastErr]
  ELSE Only({LockEach(tl, r.fs, Tail(files), lastErr \/ r.err) :
               r \in {lockLinux(tl, fs, Head(files))}})

RECURSIVE UnlockEach(_, _, _, _)
UnlockEach(tl, fs, files, lastErr) ==
  IF files = <<>> THEN [fs |-> fs, err |-> lastErr]
  ELSE Only({UnlockEach(tl, r.fs, Tail(files), lastErr \/ r.err) :
               r \in {unlockLinux(tl, fs, Head(files))}})

Lock(tl, fs, path) ==
  IF ~Exists(path) THEN [fs |-> fs, err |-> TRUE]
  ELSE IF IsDir(path) THEN LockEach(tl, fs, CollectFilesRecursively(path), FALSE)
  ELSE lockLinux(tl, fs, path)

\* Unlock handing a directory to the primitive without walking it
UnlockNoWalk(tl, fs, path) ==
  IF ~Exists(path) THEN [fs |-> fs, err |-> TRUE]
  ELSE IF IsDir(path) THEN [fs |-> fs, err |-> ~tl.chattr]
  ELSE unlockLinux(tl, fs, path)

Unlock(tl, fs, path) ==
  IF ~Exists(path) THEN [fs |-> fs, err |-> TRUE]
  ELSE IF IsDir(path) THEN UnlockEach(tl, fs, CollectFilesRecursively(path), FALSE)
  ELSE unlockLinux(tl, fs, path)

\* info.Mode().Perm(); no operation of the program changes a directory's mode
PermOf(fs, path) == IF path \in RegularFiles THEN fs.perm[path] ELSE 755

\* exec lsattr path: the attribute letters of each line it prints, one line
\* for a file, one per visible entry for a directory
LsattrOutput(fs, path) ==
  LET listed == IF IsDir(path)
                THEN SelectSeq(WalkOrder, LAMBDA f : Parent(f) = path /\ ~Hidden(f))
                ELSE <<path>>
  IN  [i \in 1..Len(listed) |-> IF listed[i] \in fs.immutable THEN {"i", "e"} ELSE {"e"}]

\* the first 20 characters of the output lie in the first line's attribute field
isLockedLinux(tl, fs, path) ==
  IF ~tl.lsattr THEN [locked |-> PermOf(fs, path) = 444, err |-> FALSE]
  ELSE LET out == LsattrOutput(fs, path)
       IN  IF Len(out) >= 1 THEN [locked |-> "i" \in out[1], err |-> FALSE]
           ELSE [locked |-> FALSE, err |-> FALSE]

IsLocked(tl, fs, path) ==
  IF ~Exists(path) THEN [locked |-> FALSE, err |-> TRUE]
  ELSE isLockedLinux(tl, fs, path)

-----------------------------------------------------------------------------
(* internal/config: Load and Save on a config file that is atomic to read   *)
(* and to replace (the protocol's steps are modelled in the last section)   *)

\* Save: [fs, disk, err, written]; written says that the file was replaced
Save(tl, fs, dsk, c) ==
  LET q == IsLocked(tl, fs, ConfigPath)
      wasLocked == ~q.err /\ q.locked
  IN  Only({
        IF u.err THEN [fs |-> u.fs, disk |-> dsk, err |-> TRUE, written |-> FALSE]
        \* os.Rename onto an immutable file is refused
        ELSE IF ConfigPath \in u.fs.immutable
          THEN [fs |-> u.fs, disk |-> dsk, err |-> TRUE, written |-> FALSE]
        ELSE LET renamed == [immutable |-> u.fs.immutable \ {ConfigPath},
                             perm |-> [u.fs.perm EXCEPT ![ConfigPath] = 600]]
                 l == IF wasLocked THEN Lock(tl, renamed, ConfigPath)
                      ELSE [fs |-> renamed, err |-> FALSE]
             IN  [fs |-> l.fs, disk |-> [ok |-> TRUE, cfg |-> c], err |-> l.err,
                  written |-> TRUE] :
        u \in {IF wasLocked THEN Unlock(tl, fs, ConfigPath)
               ELSE [fs |-> fs, err |-> FALSE]}})

-----------------------------------------------------------------------------
(* The enforcement daemon *)

FS == [immutable |-> immutable, perm |-> perm]

Range(list) == {list[i] : i \in 1..Len(list)}

\* what a step did: the operation, its event path, the managed paths it
\* notified about, handed to locker.Lock (invoked) and locked without error
\* (locked), the paths it handed to locker.Unlock, and the timer delay it set;
\* saved says that the step replaced the config file
Did(op, ev, notified, invoked, locked, unlocked, rearm) ==
  [op |-> op, ev |-> ev, notified |-> notified, invoked |-> invoked,
   locked |-> locked, unlocked |-> unlocked, rearm |-> rearm, before |-> {},
   saved |-> FALSE]

\* the paths of the list that exist and that IsLocked reports locked
LockedPathsOf(tl, fs, paths) ==
  {p \in Range(paths) : Exists(p) /\ IsLocked(tl, fs, p).locked}

\* a step of unlocking: before is what IsLocked reported locked when it began
DidUnlock(op, unlocked, rearm, before) ==
  [Did(op, <<>>, {}, {}, {}, unlocked, rearm) EXCEPT !.before = before]

NoPath == <<>>

\* the 30 * time.Second of timer.Reset
SweepInterval == 30 * Second

\* setupWatchers: the watch list after it (addWatch fails on a missing path)
setupWatchers(c) == {p \in Range(c.LockedPaths) : Exists(p)}

\* lockPath: [fs, invoked, locked]
lockPath(tl, c, fs, path, t) ==
  IF ~Exists(path) THEN [fs |-> fs, invoked |-> {}, locked |-> {}]
  ELSE IF IsTemporarilyExcluded(c, path, t) THEN [fs |-> fs, invoked |-> {}, locked |-> {}]
  ELSE LET r == Lock(tl, fs, path)
       IN  [fs |-> r.fs, invoked |-> {path}, locked |-> IF r.err THEN {} ELSE {path}]

\* the loop of enforce giving up at the first path that is missing
RECURSIVE EnforceLoopUntilMissing(_, _, _, _, _, _, _)
EnforceLoopUntilMissing(tl, c, fs, paths, t, invoked, locked) ==
  IF paths = <<>> \/ ~Exists(Head(paths))
  THEN [fs |-> fs, invoked |-> invoked, locked |-> locked]
  ELSE IF IsTemporarilyExcluded(c, Head(paths), t)
    THEN EnforceLoopUntilMissing(tl, c, fs, Tail(paths), t, invoked, locked)
  ELSE Only({EnforceLoopUntilMissing(tl, c, r.fs, Tail(paths), t,
                                     invoked \cup r.invoked, locked \cup r.locked) :
               r \in {lockPath(tl, c, fs, Head(paths), t)}})

\* the loop of enforce over the paths left
RECURSIVE EnforceLoop(_, _, _, _, _, _, _)
EnforceLoop(tl, c, fs, paths, t, invoked, locked) ==
  IF paths = <<>> THEN [fs |-> fs, invoked |-> invoked, locked |-> locked]
  ELSE IF IsTemporarilyExcluded(c, Head(paths), t)
    THEN EnforceLoop(tl, c, fs, Tail(paths), t, invoked, locked)
  ELSE Only({EnforceLoop(tl, c, r.fs, Tail(paths), t,
                         invoked \cup r.invoked, locked \cup r.locked) :
               r \in {lockPath(tl, c, fs, Head(paths), t)}})

\* enforce: [cfg, disk, fs, loaded, invoked, locked, saved]
enforce(tl, c, dsk, fs, t) ==
  IF ~dsk.ok
  THEN [cfg |-> c, disk |-> dsk, fs |-> fs, loaded |-> FALSE, invoked |-> {}, locked |-> {},
        saved |-> FALSE]
  ELSE Only({[cfg |-> cl.cfg, disk |-> w.disk, fs |-> r.fs, loaded |-> TRUE,
               invoked |-> r.invoked, locked |-> r.locked, saved |-> w.written] :
               <<cl, w, r>> \in
                 {<<cl, w, EnforceLoop(tl, cl.cfg, w.fs, cl.cfg.LockedPaths, t, {}, {})>> :
                    <<cl, w>> \in
                      {<<cl, IF cl.cleaned THEN Save(tl, fs, dsk, cl.cfg)
                             ELSE [fs |-> fs, disk |-> dsk, err |-> FALSE,
                                   written |-> FALSE]>> :
                         cl \in {CleanExpiredExcludes(dsk.cfg, t)}}}})

\* EventMatches comparing by string prefix alone
EventMatchesPrefix(eventPath, lockedPath) ==
  eventPath = lockedPath \/ HasPrefix(eventPath, lockedPath)

\* whether handleFileEvent relates the event path to the managed path
EventMatches(eventPath, lockedPath) ==
  eventPath = lockedPath \/ HasPrefix(eventPath, lockedPath \o Separator)

\* handleFileEvent dropping no event
IsConfigEventNever(eventPath) == FALSE

\* whether handleFileEvent drops the event as one of the config's own
IsConfigEvent(eventPath) ==
  \/ eventPath = ConfigPath
  \/ eventPath = ConfigDir
  \/ HasPrefix(eventPath, ConfigDir \o Separator)

\* the loop of handleFileEvent over the paths left
RECURSIVE EventLoop(_, _, _, _, _, _, _, _, _)
EventLoop(tl, c, fs, paths, e, t, notified, invoked, locked) ==
  IF paths = <<>>
  THEN [fs |-> fs, notified |-> notified, invoked |-> invoked, locked |-> locked]
  ELSE IF IsTemporarilyExcluded(c, Head(paths), t) \/ ~EventMatches(e, Head(paths))
    THEN EventLoop(tl, c, fs, Tail(paths), e, t, notified, invoked, locked)
  ELSE Only({EventLoop(tl, c, r.fs, Tail(paths), e, t, notified \cup {Head(paths)},
                       invoked \cup r.invoked, locked \cup r.locked) :
               r \in {lockPath(tl, c, fs, Head(paths), t)}})

handleFileEvent(tl, c, fs, e, t) ==
  IF IsConfigEvent(e)
  THEN [fs |-> fs, notified |-> {}, invoked |-> {}, locked |-> {}]
  ELSE EventLoop(tl, c, fs, c.LockedPaths, e, t, {}, {}, {})

\* the unlock loop giving up at the first path that fails
RECURSIVE UnlockAllUntilError(_, _, _)
UnlockAllUntilError(tl, fs, paths) ==
  IF paths = <<>> THEN fs
  ELSE Only({IF r.err THEN r.fs ELSE UnlockAllUntilError(tl, r.fs, Tail(paths)) :
               r \in {Unlock(tl, fs, Head(paths))}})

\* the unlock loop of deactivate and gracefulShutdown over the paths left
RECURSIVE UnlockAll(_, _, _)
UnlockAll(tl, fs, paths) ==
  IF paths = <<>> THEN fs
  ELSE Only({UnlockAll(tl, r.fs, Tail(paths)) : r \in {Unlock(tl, fs, Head(paths))}})

TimerDue == dpc = "running" /\ now >= timer

\* case <-timer.C, withinWorkHours && !d.active: activate
Activate ==
  /\ TimerDue /\ IsWithinWorkHours(dcfg, now) /\ ~active
  /\ \E r \in {enforce(tools, dcfg, disk, FS, now)} :
         /\ active' = TRUE
         /\ watches' = setupWatchers(dcfg)
         /\ dcfg' = r.cfg
         /\ disk' = r.disk
         /\ immutable' = r.fs.immutable
         /\ perm' = r.fs.perm
         /\ timer' = now + SweepInterval
         /\ last' = [Did(IF r.loaded THEN "activate" ELSE "activate-noload", NoPath, {},
                         r.invoked, r.locked, {}, SweepInterval)
                       EXCEPT !.saved = r.saved]
  /\ UNCHANGED <<now, tools, dpc, events, cli, sv>>

\* deactivate without its clearWatchers
DeactivateKeepingWatches ==
  /\ TimerDue /\ ~IsWithinWorkHours(dcfg, now) /\ active
  /\ \E fs \in {UnlockAll(tools, FS, dcfg.LockedPaths)} :
         /\ active' = FALSE
         /\ immutable' = fs.immutable
         /\ perm' = fs.perm
         /\ timer' = now + TimeUntilWorkHours(dcfg, now)
         /\ last' = DidUnlock("deactivate", Range(dcfg.LockedPaths),
                              TimeUntilWorkHours(dcfg, now),
                              LockedPathsOf(tools, FS, dcfg.LockedPaths))
  /\ UNCHANGED <<now, tools, disk, dcfg, watches, dpc, events, cli, sv>>

\* case <-timer.C, !withinWorkHours && d.active: deactivate
Deactivate ==
  /\ TimerDue /\ ~IsWithinWorkHours(dcfg, now) /\ active
  /\ \E fs \in {UnlockAll(tools, FS, dcfg.LockedPaths)} :
         /\ active' = FALSE
         /\ watches' = {}
         /\ immutable' = fs.immutable
         /\ perm' = fs.perm
         /\ timer' = now + TimeUntilWorkHours(dcfg, now)
         /\ last' = DidUnlock("deactivate", Range(dcfg.LockedPaths),
                              TimeUntilWorkHours(dcfg, now),
                              LockedPathsOf(tools, FS, dcfg.LockedPaths))
  /\ UNCHANGED <<now, tools, disk, dcfg, dpc, events, cli, sv>>

\* case <-timer.C, already active: enforce
Sweep ==
  /\ TimerDue /\ IsWithinWorkHours(dcfg, now) /\ active
  /\ \E r \in {enforce(tools, dcfg, disk, FS, now)} :
         /\ dcfg' = r.cfg
         /\ disk' = r.disk
         /\ immutable' = r.fs.immutable
         /\ perm' = r.fs.perm
         /\ timer' = now + SweepInterval
         /\ last' = [Did(IF r.loaded THEN "sweep" ELSE "sweep-noload", NoPath, {},
                         r.invoked, r.locked, {}, SweepInterval)
                       EXCEPT !.saved = r.saved]
  /\ UNCHANGED <<now, tools, active, watches, dpc, events, cli, sv>>

\* case <-timer.C, still inactive: sleep until work hours
Idle ==
  /\ TimerDue /\ ~IsWithinWorkHours(dcfg, now) /\ ~active
  /\ timer' = now + TimeUntilWorkHours(dcfg, now)
  /\ last' = Did("idle", NoPath, {}, {}, {}, {}, TimeUntilWorkHours(dcfg, now))
  /\ UNCHANGED <<now, tools, immutable, perm, disk, dcfg, active, watches, dpc, events, cli, sv>>

\* the events case handling the event whether or not the daemon is active
HandleEventAlways(e) ==
  /\ dpc = "running" /\ e \in events
  /\ events' = events \ {e}
  /\ \E r \in {handleFileEvent(tools, dcfg, FS, e, now)} :
         /\ immutable' = r.fs.immutable
         /\ perm' = r.fs.perm
         /\ last' = Did(IF active THEN "event" ELSE "event-inactive", e,
                        r.notified, r.invoked, r.locked, {}, 0)
  /\ UNCHANGED <<now, tools, disk, dcfg, active, watches, timer, dpc, cli, sv>>

\* case event := <-d.watcher.Events
HandleEvent(e) ==
  /\ dpc = "running" /\ e \in events
  /\ events' = events \ {e}
  /\ IF ~active
     THEN /\ last' = Did("event-inactive", e, {}, {}, {}, {}, 0)
          /\ UNCHANGED <<immutable, perm>>
     ELSE \E r \in {handleFileEvent(tools, dcfg, FS, e, now)} :
              /\ immutable' = r.fs.immutable
              /\ perm' = r.fs.perm
              /\ last' = Did("event", e, r.notified, r.invoked, r.locked, {}, 0)
  /\ UNCHANGED <<now, tools, disk, dcfg, active, watches, timer, dpc, cli, sv>>

\* the SIGHUP case dropping the watches when the load fails
ReloadDroppingWatches ==
  /\ dpc = "running"
  /\ IF disk.ok
     THEN /\ dcfg' = disk.cfg
          /\ watches' = IF active THEN setupWatchers(disk.cfg) ELSE watches
          /\ last' = Did("reload", NoPath, {}, {}, {}, {}, 0)
     ELSE /\ UNCHANGED dcfg
          /\ watches' = {}
          /\ last' = Did("reload-failed", NoPath, {}, {}, {}, {}, 0)
  /\ UNCHANGED <<now, tools, immutable, perm, disk, active, timer, dpc, events, cli, sv>>

\* the SIGHUP case leaving the watch list as it is
ReloadKeepingWatches ==
  /\ dpc = "running"
  /\ IF disk.ok
     THEN /\ dcfg' = disk.cfg
          /\ watches' = watches
          /\ last' = Did("reload", NoPath, {}, {}, {}, {}, 0)
     ELSE /\ UNCHANGED <<dcfg, watches>>
          /\ last' = Did("reload-failed", NoPath, {}, {}, {}, {}, 0)
  /\ UNCHANGED <<now, tools, immutable, perm, disk, active, timer, dpc, events, cli, sv>>

\* case sig := <-sigCh with SIGHUP
Reload ==
  /\ dpc = "running"
  /\ IF disk.ok
     THEN /\ dcfg' = disk.cfg
          /\ watches' = IF active THEN setupWatchers(disk.cfg) ELSE watches
          /\ last' = Did("reload", NoPath, {}, {}, {}, {}, 0)
     ELSE /\ UNCHANGED <<dcfg, watches>>
          /\ last' = Did("reload-failed", NoPath, {}, {}, {}, {}, 0)
  /\ UNCHANGED <<now, tools, immutable, perm, disk, active, timer, dpc, events, cli, sv>>

\* case sig := <-sigCh with SIGTERM or SIGINT: gracefulShutdown, then Stop
Terminate ==
  /\ dpc = "running"
  /\ \E fs \in {UnlockAll(tools, FS, dcfg.LockedPaths)} :
         /\ immutable' = fs.immutable
         /\ perm' = fs.perm
  /\ dpc' = "stopped"
  /\ watches' = {}
  /\ last' = DidUnlock("terminate", Range(dcfg.LockedPaths), 0,
                       LockedPathsOf(tools, FS, dcfg.LockedPaths))
  /\ UNCHANGED <<now, tools, disk, dcfg, active, timer, events, cli, sv>>

-----------------------------------------------------------------------------
(* The commands: runTempUnlock, runRm, runAdd and runInit, one step per      *)
(* access to what a command shares with the daemon (the load, the save, the *)
(* lock or unlock, the service).  cli is the one command in flight: which   *)
(* command, where it is, its path, the Config it holds, and whether the     *)
(* typing challenge was asked for and typed correctly.                      *)

EmptyMap == [x \in {} |-> Garbage]

Cli(cmd, pc, path, cfg, asked, typed) ==
  [cmd |-> cmd, pc |-> pc, path |-> path, cfg |-> cfg, expiry |-> 0,
   asked |-> asked, typed |-> typed]

CliIdle == Cli("none", "idle", NoPath, EmptyMap, FALSE, FALSE)

CmdUnchanged == <<now, tools, dcfg, active, watches, timer, dpc, events, sv>>

\* pathsToUnlock
PathsToUnlock(p) ==
  IF Exists(p) /\ IsDir(p) THEN CollectFilesRecursively(p) ELSE <<p>>

RECURSIVE AddTempExcludes(_, _, _, _)
AddTempExcludes(c, paths, duration, t) ==
  IF paths = <<>> THEN c
  ELSE Only({AddTempExcludes(c2, Tail(paths), duration, t) :
               c2 \in {AddTempExclude(c, Head(paths), duration, t)}})

\* runTempUnlock going on whatever was typed
TempUnlockAdmitsUntyped(c, p, typed) == InList(c.LockedPaths, p)

\* whether runTempUnlock goes on: the path is in the lock list and
\* challenge.Run returned no error
TempUnlockAdmits(c, p, typed) == InList(c.LockedPaths, p) /\ typed

\* config.Load, the path is found in the lock list, the challenge is passed
TempUnlockLoad(p) ==
  /\ cli.pc = "idle" /\ disk.ok
  /\ \E typed \in BOOLEAN :
       /\ TempUnlockAdmits(disk.cfg, p, typed)
       /\ cli' = Cli("temp-unlock", "loaded", p, disk.cfg, TRUE, typed)
  /\ last' = Did("temp-unlock-load", p, {}, {}, {}, {}, 0)
  /\ UNCHANGED <<now, tools, immutable, perm, disk, dcfg, active, watches, timer, dpc, events, sv>>

\* config.Load, then the path is not in the lock list or the challenge fails:
\* the command returns the error
TempUnlockRefuse(p, typed) ==
  /\ cli.pc = "idle" /\ disk.ok
  /\ ~TempUnlockAdmits(disk.cfg, p, typed)
  /\ cli' = Cli("temp-unlock", "refused", p, disk.cfg, InList(disk.cfg.LockedPaths, p), FALSE)
  /\ last' = Did("temp-unlock-refuse", p, {}, {}, {}, {}, 0)
  /\ UNCHANGED <<now, tools, immutable, perm, disk, dcfg, active, watches, timer, dpc, events, sv>>

\* AddTempExclude for every path to unlock, then cfg.Save
TempUnlockSave ==
  /\ cli.cmd = "temp-unlock" /\ cli.pc = "loaded"
  /\ \E c \in {AddTempExcludes(cli.cfg, PathsToUnlock(cli.path), cli.cfg.TempDuration, now)} :
     \E w \in {Save(tools, FS, disk, c)} :
         /\ disk' = w.disk
         /\ immutable' = w.fs.immutable
         /\ perm' = w.fs.perm
         /\ cli' = [cli EXCEPT !.pc = IF w.err THEN "failed" ELSE "saved",
                               !.cfg = c,
                               !.expiry = ParseRFC3339(FormatRFC3339(
                                            now + cli.cfg.TempDuration * Minute)).t]
  /\ last' = Did("temp-unlock-save", cli.path, {}, {}, {}, {}, 0)
  /\ UNCHANGED <<now, tools, dcfg, active, watches, timer, dpc, events, sv>>

\* locker.Unlock for every path to unlock
TempUnlockUnlock ==
  /\ cli.cmd = "temp-unlock" /\ cli.pc = "saved"
  /\ \E fs \in {UnlockAll(tools, FS, PathsToUnlock(cli.path))} :
         /\ immutable' = fs.immutable
         /\ perm' = fs.perm
  /\ cli' = [cli EXCEPT !.pc = "done"]
  /\ last' = Did("temp-unlock-unlock", cli.path, {}, {}, {}, Range(PathsToUnlock(cli.path)), 0)
  /\ UNCHANGED <<now, tools, disk, dcfg, active, watches, timer, dpc, events, sv>>

\* svc.Status and svc.Restart at the end of runAdd and runRm: a running
\* daemon takes SIGTERM once it is back in its loop, shuts down gracefully,
\* and a new daemon is constructed from the config on disk
CmdRestart ==
  /\ cli.cmd \in {"add", "rm"} /\ cli.pc = "restart"
  /\ dpc \in {"stopped", "running"}
  /\ cli' = [cli EXCEPT !.pc = "done"]
  /\ IF dpc = "stopped" \/ ~disk.ok
     THEN UNCHANGED <<immutable, perm, dcfg, active, watches, timer, events>>
     ELSE /\ \E fs \in {UnlockAll(tools, FS, dcfg.LockedPaths)} :
                /\ immutable' = fs.immutable
                /\ perm' = fs.perm
          /\ dcfg' = disk.cfg
          /\ active' = FALSE
          /\ watches' = {}
          /\ timer' = now
          /\ events' = {}
  /\ last' = Did("restart", cli.path, {}, {}, {}, {}, 0)
  /\ UNCHANGED <<now, tools, disk, dpc, sv>>

\* runRm never asking for the challenge
RmAsksNever(c, t) == FALSE

\* whether runRm asks for the challenge
RmAsks(c, t) == IsWithinWorkHours(c, t)

\* config.Load, the path is found in the lock list, the challenge is passed
\* where runRm asks for it
RmLoad(p, typed) ==
  /\ cli.pc = "idle" /\ disk.ok
  /\ InList(disk.cfg.LockedPaths, p)
  /\ RmAsks(disk.cfg, now) => typed
  /\ cli' = Cli("rm", "loaded", p, disk.cfg, RmAsks(disk.cfg, now),
                RmAsks(disk.cfg, now) /\ typed)
  /\ last' = Did("rm-load", p, {}, {}, {}, {}, 0)
  /\ UNCHANGED <<immutable, perm, disk>>
  /\ UNCHANGED CmdUnchanged

\* config.Load, then the path is not in the lock list or the challenge fails
RmRefuse(p, typed) ==
  /\ cli.pc = "idle" /\ disk.ok
  /\ ~InList(disk.cfg.LockedPaths, p) \/ (RmAsks(disk.cfg, now) /\ ~typed)
  /\ cli' = Cli("rm", "refused", p, disk.cfg,
                InList(disk.cfg.LockedPaths, p) /\ RmAsks(disk.cfg, now), FALSE)
  /\ last' = Did("rm-refuse", p, {}, {}, {}, {}, 0)
  /\ UNCHANGED <<immutable, perm, disk>>
  /\ UNCHANGED CmdUnchanged

\* cfg.RemovePath, then cfg.Save
RmSave ==
  /\ cli.cmd = "rm" /\ cli.pc = "loaded"
  /\ \E c \in {RemovePath(cli.cfg, cli.path)} :
     \E w \in {Save(tools, FS, disk, c)} :
         /\ disk' = w.disk
         /\ immutable' = w.fs.immutable
         /\ perm' = w.fs.perm
         /\ cli' = [cli EXCEPT !.pc = IF w.err THEN "failed" ELSE "saved", !.cfg = c]
  /\ last' = Did("rm-save", cli.path, {}, {}, {}, {}, 0)
  /\ UNCHANGED CmdUnchanged

\* locker.Unlock of the path
RmUnlock ==
  /\ cli.cmd = "rm" /\ cli.pc = "saved"
  /\ \E r \in {Unlock(tools, FS, cli.path)} :
         /\ immutable' = r.fs.immutable
         /\ perm' = r.fs.perm
  /\ cli' = [cli EXCEPT !.pc = "restart"]
  /\ last' = Did("rm-unlock", cli.path, {}, {}, {}, {cli.path}, 0)
  /\ UNCHANGED disk
  /\ UNCHANGED CmdUnchanged

\* resolveAndValidatePath finds the path, config.Load; a path in the lock
\* list already ends the command
AddLoad(p) ==
  /\ cli.pc = "idle" /\ disk.ok /\ Exists(p)
  /\ cli' = Cli("add", IF InList(disk.cfg.LockedPaths, p) THEN "done" ELSE "loaded",
                p, disk.cfg, FALSE, FALSE)
  /\ last' = Did("add-load", p, {}, {}, {}, {}, 0)
  /\ UNCHANGED <<immutable, perm, disk>>
  /\ UNCHANGED CmdUnchanged

\* cfg.AddPath, then cfg.Save
AddSave ==
  /\ cli.cmd = "add" /\ cli.pc = "loaded"
  /\ \E c \in {AddPath(cli.cfg, cli.path)} :
     \E w \in {Save(tools, FS, disk, c)} :
         /\ disk' = w.disk
         /\ immutable' = w.fs.immutable
         /\ perm' = w.fs.perm
         /\ cli' = [cli EXCEPT !.pc = IF w.err THEN "failed" ELSE "saved", !.cfg = c]
  /\ last' = Did("add-save", cli.path, {}, {}, {}, {}, 0)
  /\ UNCHANGED CmdUnchanged

\* locker.Lock of the path if cfg.IsWithinWorkHours
AddLock ==
  /\ cli.cmd = "add" /\ cli.pc = "saved"
  /\ \E r \in {IF IsWithinWorkHours(cli.cfg, now) THEN Lock(tools, FS, cli.path)
               ELSE [fs |-> FS, err |-> FALSE]} :
         /\ immutable' = r.fs.immutable
         /\ perm' = r.fs.perm
  /\ cli' = [cli EXCEPT !.pc = "restart"]
  /\ last' = Did("add-lock", cli.path, {}, {}, {}, {}, 0)
  /\ UNCHANGED disk
  /\ UNCHANGED CmdUnchanged

-----------------------------------------------------------------------------
(* The environment: the clock and the file system's change notifications *)

\* the instant the daemon starts: a Monday, 07:59:30
StartClock == At(1, 7, 59, 30, 0)

\* The clock moves in steps of one sweep interval; a due timer is served
\* before the clock moves on, and a timer armed with no delay does not hold it.
Tick ==
  /\ now < StartClock + MaxTicks * SweepInterval
  /\ ~TimerDue \/ (timer = now /\ last.op = "idle")
  /\ now' = now + SweepInterval
  /\ last' = Did("env", NoPath, {}, {}, {}, {}, 0)
  /\ UNCHANGED <<tools, immutable, perm, disk, dcfg, active, watches, timer, dpc, events, cli, sv>>

\* fsnotify reports a change of a watched path or of an entry of a watched directory
FsChange(e) ==
  /\ dpc = "running"
  /\ Cardinality(events) < MaxEvents
  /\ e \in watches \/ Parent(e) \in watches
  /\ events' = events \cup {e}
  /\ last' = Did("env", NoPath, {}, {}, {}, {}, 0)
  /\ UNCHANGED <<now, tools, immutable, perm, disk, dcfg, active, watches, timer, dpc, cli, sv>>

-----------------------------------------------------------------------------
(* The configurations and the initial state *)

T0800 == <<"0", "8", ":", "0", "0">>
T0802 == <<"0", "8", ":", "0", "2">>

Cfg(paths, start, end, cron) ==
  [LockedPaths |-> paths, StartTime |-> start, EndTime |-> end, CronSchedule |-> cron,
   TempDuration |-> 1, TempExcludes |-> EmptyMap]

\* the exclusions an earlier temp-unlock of Zshrc and of Nvim left behind
LeftExcludes ==
  MapPut(MapPut(EmptyMap, Zshrc, FormatRFC3339(At(1, 8, 2, 30, 0))),
         InitLua, FormatRFC3339(At(1, 8, 0, 30, 0)))

\* schedules that do not parse: a time without its colon, an hour of 24, an
\* empty time, a cron minute of 60, a cron expression of four fields
MalformedConfigs ==
  { Cfg(<<ConfigPath, Zshrc>>, T0800, <<"0", "8", "0", "2">>, NoCron),
    Cfg(<<ConfigPath, Zshrc>>, <<"2", "4", ":", "0", "0">>, T0802, NoCron),
    Cfg(<<ConfigPath, Zshrc>>, <<>>, T0802, NoCron),
    Cfg(<<ConfigPath, Zshrc>>, T0800, T0802, <<"60", "8", "*", "*", "1-5">>),
    Cfg(<<ConfigPath, Zshrc>>, <<>>, <<>>, <<"0-1", "8", "*", "1-5">>) }

\* what init leaves, after some add commands: a two-minute window from 08:00
\* on weekdays, as a time range and as a cron schedule
InitConfigs ==
  { Cfg(<<ConfigPath, Zshrc, Nvim>>, T0800, T0802, NoCron),
    [Cfg(<<ConfigPath, Zshrc, Nvim>>, T0800, T0802, NoCron)
       EXCEPT !.TempExcludes = LeftExcludes],
    Cfg(<<ConfigPath, Gone, Nvim, Nvim2X>>, T0800, T0802, NoCron),
    Cfg(<<Zshrc, Nvim>>, <<>>, <<>>, <<"0-1", "8", "*", "*", "1-5">>) }
    \cup MalformedConfigs

CleanFS == [immutable |-> {},
            perm |-> [f \in RegularFiles |-> IF f = ConfigPath THEN 600 ELSE 644]]

RECURSIVE LockAll(_, _, _)
LockAll(tl, fs, paths) ==
  IF paths = <<>> THEN fs
  ELSE Only({LockAll(tl, r.fs, Tail(paths)) : r \in {Lock(tl, fs, Head(paths))}})

SvIdle == <<>>

\* The daemon has just been constructed (New has loaded the config, the timer
\* fires at once); the managed paths are unlocked, or still locked by an
\* earlier run that was killed inside the window.
Init ==
  /\ now = StartClock
  /\ tools \in [chattr : BOOLEAN, lsattr : BOOLEAN, chmod : BOOLEAN]
  /\ disk \in {[ok |-> TRUE, cfg |-> c] : c \in InitConfigs}
  /\ dcfg = disk.cfg
  /\ \E fs \in {CleanFS, LockAll(tools, CleanFS, disk.cfg.LockedPaths)} :
       /\ immutable = fs.immutable
       /\ perm = fs.perm
  /\ active = FALSE
  /\ watches = {}
  /\ timer = now
  /\ dpc = "running"
  /\ events = {}
  /\ cli = CliIdle
  /\ last = Did("init", NoPath, {}, {}, {}, {}, 0)
  /\ sv = SvIdle

EventPaths == RegularFiles \cup Directories

\* the daemon's loop
DaemonStep ==
  \/ Activate
  \/ Deactivate
  \/ Sweep
  \/ Idle
  \/ \E e \in EventPaths : HandleEvent(e)
  \/ Reload
  \/ Terminate

Next ==
  \/ DaemonStep
  \/ Tick
  \/ \E e \in EventPaths : FsChange(e)

Spec == Init /\ [][Next]_vars

\* The daemon beside one temp-unlock command, on the first configuration
InitCli == Init /\ disk.cfg = Cfg(<<ConfigPath, Zshrc, Nvim>>, T0800, T0802, NoCron)

NextCli ==
  \/ DaemonStep
  \/ Tick
  \/ \E e \in EventPaths : FsChange(e)
  \/ \E p \in EventPaths \cup {Gone} : TempUnlockLoad(p)
  \/ TempUnlockSave
  \/ TempUnlockUnlock

SpecCli == InitCli /\ [][NextCli]_vars

-----------------------------------------------------------------------------
(* The daemon beside the commands that rewrite the config.  enforce is taken *)
(* in two steps, its config.Load and the rest, so that a command's load and  *)
(* save may fall between them.                                               *)

\* case <-timer.C inside the window: activate's d.active and setupWatchers,
\* then enforce up to its config.Load (a failed load ends enforce)
EnforceBegin ==
  /\ TimerDue /\ IsWithinWorkHours(dcfg, now)
  /\ active' = TRUE
  /\ watches' = IF active THEN watches ELSE setupWatchers(dcfg)
  /\ IF disk.ok
     THEN /\ dcfg' = disk.cfg
          /\ dpc' = "enforcing"
          /\ UNCHANGED timer
     ELSE /\ timer' = now + SweepInterval
          /\ UNCHANGED <<dcfg, dpc>>
  /\ last' = Did("enforce-load", NoPath, {}, {}, {}, {}, 0)
  /\ UNCHANGED <<now, tools, immutable, perm, disk, events, cli, sv>>

\* the rest of enforce: CleanExpiredExcludes, Save if it cleaned, the lock
\* loop; then timer.Reset
EnforceEnd ==
  /\ dpc = "enforcing"
  /\ \E cl \in {CleanExpiredExcludes(dcfg, now)} :
     \E w \in {IF cl.cleaned THEN Save(tools, FS, disk, cl.cfg)
               ELSE [fs |-> FS, disk |-> disk, err |-> FALSE, written |-> FALSE]} :
     \E r \in {EnforceLoop(tools, cl.cfg, w.fs, cl.cfg.LockedPaths, now, {}, {})} :
         /\ dcfg' = cl.cfg
         /\ disk' = w.disk
         /\ immutable' = r.fs.immutable
         /\ perm' = r.fs.perm
         /\ last' = [Did("enforce-rest", NoPath, {}, r.invoked, r.locked, {}, SweepInterval)
                       EXCEPT !.saved = w.written]
  /\ dpc' = "running"
  /\ timer' = now + SweepInterval
  /\ UNCHANGED <<now, tools, active, watches, events, cli, sv>>

RmwPaths == {Zshrc, Nvim2X}

InitRmw ==
  /\ Init
  /\ tools.lsattr /\ tools.chmod
  /\ disk.cfg \in {Cfg(<<ConfigPath, Zshrc, Nvim>>, T0800, T0802, NoCron),
                   [Cfg(<<ConfigPath, Zshrc, Nvim>>, T0800, T0802, NoCron)
                      EXCEPT !.TempExcludes = LeftExcludes]}

NextRmw ==
  \/ EnforceBegin
  \/ EnforceEnd
  \/ Deactivate
  \/ Idle
  \/ Reload
  \/ Tick
  \/ \E p \in RmwPaths : AddLoad(p)
  \/ AddSave
  \/ AddLock
  \/ \E p \in RmwPaths, typed \in BOOLEAN : RmLoad(p, typed)
  \/ RmSave
  \/ RmUnlock
  \/ CmdRestart
  \/ \E p \in RmwPaths : TempUnlockLoad(p)
  \/ TempUnlockSave
  \/ TempUnlockUnlock

SpecRmw == InitRmw /\ [][NextRmw]_vars

-----------------------------------------------------------------------------
(* The daemon on a config file that other programs damage and rewrite: the  *)
(* file stops parsing (an edit by hand, a write cut short), or is replaced   *)
(* by a command's Save                                                       *)

\* exclusions gone stale: an expiry that does not parse, one that passes at
\* 08:00:30
StaleExcludes ==
  MapPut(MapPut(EmptyMap, Zshrc, Garbage), Nvim, FormatRFC3339(At(1, 8, 0, 30, 0)))

\* the configs on disk: the usual one, with stale exclusions, with a live
\* exclusion, and one that manages the config directory, a missing path and
\* a file
FaultConfigs ==
  { Cfg(<<ConfigPath, Zshrc, Nvim>>, T0800, T0802, NoCron),
    [Cfg(<<ConfigPath, Zshrc, Nvim>>, T0800, T0802, NoCron)
       EXCEPT !.TempExcludes = StaleExcludes],
    [Cfg(<<ConfigPath, Zshrc, Nvim>>, T0800, T0802, NoCron)
       EXCEPT !.TempExcludes = LeftExcludes],
    Cfg(<<ConfigDir, Gone, Nvim2X>>, T0800, T0802, NoCron) }

\* the tools of the runs: all work; lsattr is missing; chattr and chmod both
\* fail, so that no lock and no unlock succeeds
FaultTools ==
  { [chattr |-> TRUE, lsattr |-> TRUE, chmod |-> TRUE],
    [chattr |-> TRUE, lsattr |-> FALSE, chmod |-> TRUE],
    [chattr |-> FALSE, lsattr |-> TRUE, chmod |-> FALSE] }

InitFault ==
  /\ Init
  /\ tools \in FaultTools
  /\ disk.cfg \in FaultConfigs
  /\ immutable = {} /\ perm = CleanFS.perm

\* config.json stops parsing
ConfigDamaged ==
  /\ dpc = "running" /\ disk.ok
  /\ disk' = [disk EXCEPT !.ok = FALSE]
  /\ last' = Did("env", NoPath, {}, {}, {}, {}, 0)
  /\ UNCHANGED <<now, tools, immutable, perm, dcfg, active, watches, timer, dpc, events, cli, sv>>

\* config.json is replaced by a config that parses
ConfigRewritten(c) ==
  /\ dpc = "running" /\ (~disk.ok \/ disk.cfg /= c)
  /\ disk' = [ok |-> TRUE, cfg |-> c]
  /\ last' = Did("env", NoPath, {}, {}, {}, {}, 0)
  /\ UNCHANGED <<now, tools, immutable, perm, dcfg, active, watches, timer, dpc, events, cli, sv>>

\* case err := <-d.watcher.Errors
WatcherError ==
  /\ dpc = "running" /\ last.op /= "watcher-error"
  /\ last' = Did("watcher-error", NoPath, {}, {}, {}, {}, 0)
  /\ UNCHANGED <<now, tools, immutable, perm, disk, dcfg, active, watches, timer, dpc,
                 events, cli, sv>>

\* the paths whose changes are reported in these runs
FaultEvents == {ConfigDir, ConfigPath, Zshrc}

NextFault ==
  \/ DaemonStep
  \/ WatcherError
  \/ Tick
  \/ \E e \in FaultEvents : FsChange(e)
  \/ ConfigDamaged
  \/ \E c \in FaultConfigs : ConfigRewritten(c)

SpecFault == InitFault /\ [][NextFault]_vars

-----------------------------------------------------------------------------
(* cmd/init.go: runInit over an existing config, and the commands on their   *)
(* own                                                                       *)

\* what the prompts of runInit hand to CreateDefault: a start and an end time
\* that have passed the validation of the input
InitRanges == {<<T0800, T0802>>, <<T0800, <<"1", "7", ":", "0", "0">>>>}

\* whether runInit goes on over an existing config: the typing challenge when
\* IsLocked reports the config file locked, the y/N confirmation otherwise
InitAdmits(locked, typed, yes) == IF locked THEN typed ELSE yes

\* the restoring loop leaving the earlier paths out
RECURSIVE RestorePathsNone(_, _)
RestorePathsNone(c, existing) == c

\* the loop restoring the earlier locked paths into the new config
RECURSIVE RestorePaths(_, _)
RestorePaths(c, existing) ==
  IF existing = <<>> THEN c
  ELSE IF Head(existing) /= ConfigPath
    THEN RestorePaths(AddPath(c, Head(existing)), Tail(existing))
  ELSE RestorePaths(c, Tail(existing))

\* locker.IsLocked of the existing config file, the challenge or the
\* confirmation, config.Load for the earlier paths, the prompts, CreateDefault,
\* AddPath of the config file and of the earlier paths
RunInitLoad(typed, yes, range) ==
  /\ cli.pc = "idle"
  /\ \E locked \in {IsLocked(tools, FS, ConfigPath).locked} :
       /\ InitAdmits(locked, typed, yes)
       /\ cli' = Cli("init", "loaded", ConfigPath,
                     RestorePaths(AddPath(Cfg(<<>>, range[1], range[2], NoCron), ConfigPath),
                                  IF disk.ok THEN disk.cfg.LockedPaths ELSE <<>>),
                     locked, locked /\ typed)
  /\ last' = Did("init-load", ConfigPath, {}, {}, {}, {}, 0)
  /\ UNCHANGED <<immutable, perm, disk>>
  /\ UNCHANGED CmdUnchanged

\* the challenge fails, or the confirmation is not given
RunInitRefuse(typed, yes) ==
  /\ cli.pc = "idle"
  /\ \E locked \in {IsLocked(tools, FS, ConfigPath).locked} :
       /\ ~InitAdmits(locked, typed, yes)
       /\ cli' = Cli("init", "refused", ConfigPath, EmptyMap, locked, FALSE)
  /\ last' = Did("init-refuse", ConfigPath, {}, {}, {}, {}, 0)
  /\ UNCHANGED <<immutable, perm, disk>>
  /\ UNCHANGED CmdUnchanged

\* cfg.Save
RunInitSave ==
  /\ cli.cmd = "init" /\ cli.pc = "loaded"
  /\ \E w \in {Save(tools, FS, disk, cli.cfg)} :
         /\ disk' = w.disk
         /\ immutable' = w.fs.immutable
         /\ perm' = w.fs.perm
         /\ cli' = [cli EXCEPT !.pc = IF w.err THEN "failed" ELSE "saved"]
  /\ last' = Did("init-save", ConfigPath, {}, {}, {}, {}, 0)
  /\ UNCHANGED CmdUnchanged

\* locker.Lock of the config file if cfg.IsWithinWorkHours
RunInitLock ==
  /\ cli.cmd = "init" /\ cli.pc = "saved"
  /\ \E r \in {IF IsWithinWorkHours(cli.cfg, now) THEN Lock(tools, FS, ConfigPath)
               ELSE [fs |-> FS, err |-> FALSE]} :
         /\ immutable' = r.fs.immutable
         /\ perm' = r.fs.perm
  /\ cli' = [cli EXCEPT !.pc = "service"]
  /\ last' = Did("init-lock", ConfigPath, {}, {}, {}, {}, 0)
  /\ UNCHANGED disk
  /\ UNCHANGED CmdUnchanged

\* svc.Install and svc.Start: the installation may fail; a daemon that is not
\* running is constructed from the config on disk, its timer firing at once
RunInitService(installs) ==
  /\ cli.cmd = "init" /\ cli.pc = "service"
  /\ cli' = [cli EXCEPT !.pc = IF installs THEN "done" ELSE "failed"]
  /\ IF installs /\ dpc = "stopped" /\ disk.ok
     THEN /\ dpc' = "running"
          /\ dcfg' = disk.cfg
          /\ active' = FALSE
          /\ watches' = {}
          /\ timer' = now
          /\ events' = {}
     ELSE UNCHANGED <<dpc, dcfg, active, watches, timer, events>>
  /\ last' = Did("init-service", ConfigPath, {}, {}, {}, {}, 0)
  /\ UNCHANGED <<now, tools, immutable, perm, disk, sv>>

\* the paths handed to the commands
CmdPaths == {Zshrc, Nvim, InitLua, Nvim2X, Gone}

\* the steps of the commands
CmdStep ==
  \/ \E p \in CmdPaths : TempUnlockLoad(p)
  \/ \E p \in CmdPaths, typed \in BOOLEAN : TempUnlockRefuse(p, typed)
  \/ TempUnlockSave
  \/ TempUnlockUnlock
  \/ \E p \in CmdPaths, typed \in BOOLEAN : RmLoad(p, typed)
  \/ \E p \in CmdPaths, typed \in BOOLEAN : RmRefuse(p, typed)
  \/ RmSave
  \/ RmUnlock
  \/ \E p \in CmdPaths : AddLoad(p)
  \/ AddSave
  \/ AddLock
  \/ CmdRestart
  \/ \E typed \in BOOLEAN, yes \in BOOLEAN, range \in InitRanges : RunInitLoad(typed, yes, range)
  \/ \E typed \in BOOLEAN, yes \in BOOLEAN : RunInitRefuse(typed, yes)
  \/ RunInitSave
  \/ RunInitLock
  \/ \E installs \in BOOLEAN : RunInitService(installs)

CmdConfigs ==
  { Cfg(<<ConfigPath, Zshrc, Nvim>>, T0800, T0802, NoCron),
    [Cfg(<<ConfigPath, Zshrc, Nvim>>, T0800, T0802, NoCron)
       EXCEPT !.TempExcludes = LeftExcludes],
    Cfg(<<ConfigPath, Gone, Nvim, Nvim2X>>, T0800, T0802, NoCron),
    Cfg(<<Zshrc, Nvim>>, <<>>, <<>>, <<"0-1", "8", "*", "*", "1-5">>) }

\* One command is run while no daemon is running, before the window or inside
\* it; the managed paths are unlocked, or locked as the last daemon left them.
InitCmd ==
  /\ now \in {StartClock, At(1, 8, 0, 30, 0)}
  /\ tools \in [chattr : BOOLEAN, lsattr : BOOLEAN, chmod : BOOLEAN]
  /\ disk \in {[ok |-> TRUE, cfg |-> c] : c \in CmdConfigs}
  /\ dcfg = disk.cfg
  /\ \E fs \in {CleanFS, LockAll(tools, CleanFS, disk.cfg.LockedPaths)} :
       /\ immutable = fs.immutable
       /\ perm = fs.perm
  /\ active = FALSE
  /\ watches = {}
  /\ timer = now
  /\ dpc = "stopped"
  /\ events = {}
  /\ cli = CliIdle
  /\ last = Did("init", NoPath, {}, {}, {}, {}, 0)
  /\ sv = SvIdle

NextCmd == CmdStep

SpecCmd == InitCmd /\ [][NextCmd]_vars

-----------------------------------------------------------------------------
(* The schedule evaluator, the exclusion set and the lock primitive on their *)
(* own: the inputs are drawn in the initial state, each step calls one of    *)
(* their operations and records what it returned in last.                    *)

NoConfig == Cfg(<<>>, <<>>, <<>>, NoCron)

\* no daemon and no command is running
Quiet ==
  /\ disk = [ok |-> FALSE, cfg |-> NoConfig]
  /\ active = FALSE
  /\ watches = {}
  /\ timer = 0
  /\ dpc = "stopped"
  /\ events = {}
  /\ cli = CliIdle
  /\ sv = SvIdle

\* time-of-day texts with the hour and the minute they stand for
ClockTexts ==
  { [text |-> T0800, h |-> 8, m |-> 0],
    [text |-> T0802, h |-> 8, m |-> 2],
    [text |-> <<"8", ":", "3", "0">>, h |-> 8, m |-> 30],
    [text |-> <<"1", "7", ":", "0", "0">>, h |-> 17, m |-> 0] }

\* times of day around the bounds of the windows, on and off the minute
ClockSamples ==
  { <<7, 59, 59, SubSec - 1>>, <<8, 0, 0, 0>>, <<8, 0, 0, 1>>, <<8, 1, 59, SubSec - 1>>,
    <<8, 2, 0, 0>>, <<8, 30, 0, 0>>, <<12, 0, 0, 0>>, <<16, 59, 59, SubSec - 1>>,
    <<17, 0, 0, 0>>, <<17, 0, 0, 1>>, <<23, 59, 59, SubSec - 1>> }

SchedTimes == {At(d, c[1], c[2], c[3], c[4]) : d \in 0..6, c \in ClockSamples}

InitSched ==
  /\ Quiet
  /\ tools = [chattr |-> TRUE, lsattr |-> TRUE, chmod |-> TRUE]
  /\ immutable = {}
  /\ perm = CleanFS.perm
  /\ now \in SchedTimes
  /\ \E st \in ClockTexts, en \in ClockTexts :
       /\ dcfg = Cfg(<<Zshrc>>, st.text, en.text, NoCron)
       /\ last = [op |-> "init", start |-> st, end |-> en, out |-> FALSE]

\* a call of IsWithinWorkHours at the instant now
EvalWithin ==
  /\ last.op = "init"
  /\ last' = [last EXCEPT !.op = "IsWithinWorkHours", !.out = IsWithinWorkHours(dcfg, now)]
  /\ UNCHANGED <<now, tools, immutable, perm, disk, dcfg, active, watches, timer, dpc,
                 events, cli, sv>>

NextSched == EvalWithin

SpecSched == InitSched /\ [][NextSched]_vars

ExclBase == At(1, 8, 0, 0, 1)

ExclTimes ==
  {ExclBase + d : d \in {0, 1, Second - 1, Minute - 2, Minute - 1, Minute, Minute + 1,
                         2 * Minute - 1, 2 * Minute}}

ExclPaths == {Zshrc, Nvim}

\* a loaded config carries no entry, entries that expire at a second's
\* boundary, or entries whose text is no timestamp
InitExcl ==
  /\ Quiet
  /\ tools = [chattr |-> TRUE, lsattr |-> TRUE, chmod |-> TRUE]
  /\ immutable = {}
  /\ perm = CleanFS.perm
  /\ now = ExclBase
  /\ \E ps \in SUBSET ExclPaths :
     \E m \in [ps -> {Garbage, FormatRFC3339(ExclBase + Minute)}] :
       dcfg = [Cfg(<<Zshrc, Nvim>>, T0800, T0802, NoCron) EXCEPT !.TempExcludes = m]
  /\ last = [op |-> "init", path |-> NoPath, minutes |-> 0, out |-> FALSE,
             before |-> dcfg.TempExcludes]

ExclUnchanged == <<tools, immutable, perm, disk, active, watches, timer, dpc, events, cli, sv>>

\* cfg.AddTempExclude(p, m)
ExclAdd(p, m) ==
  /\ dcfg' = AddTempExclude(dcfg, p, m, now)
  /\ last' = [op |-> "add", path |-> p, minutes |-> m, out |-> FALSE,
              before |-> dcfg.TempExcludes]
  /\ UNCHANGED now
  /\ UNCHANGED ExclUnchanged

\* cfg.CleanExpiredExcludes()
ExclClean ==
  /\ \E r \in {CleanExpiredExcludes(dcfg, now)} :
       /\ dcfg' = r.cfg
       /\ last' = [op |-> "clean", path |-> NoPath, minutes |-> 0, out |-> r.cleaned,
                   before |-> dcfg.TempExcludes]
  /\ UNCHANGED now
  /\ UNCHANGED ExclUnchanged

\* cfg.IsTemporarilyExcluded(p)
ExclQuery(p) ==
  /\ last' = [op |-> "query", path |-> p, minutes |-> 0,
              out |-> IsTemporarilyExcluded(dcfg, p, now), before |-> dcfg.TempExcludes]
  /\ UNCHANGED <<now, dcfg>>
  /\ UNCHANGED ExclUnchanged

\* time passes
ExclAdvance(t) ==
  /\ t > now
  /\ now' = t
  /\ last' = [op |-> "advance", path |-> NoPath, minutes |-> 0, out |-> FALSE,
              before |-> dcfg.TempExcludes]
  /\ UNCHANGED dcfg
  /\ UNCHANGED ExclUnchanged

NextExcl ==
  \/ \E p \in ExclPaths, m \in {1, 2} : ExclAdd(p, m)
  \/ ExclClean
  \/ \E p \in ExclPaths : ExclQuery(p)
  \/ \E t \in ExclTimes : ExclAdvance(t)

SpecExcl == InitExcl /\ [][NextExcl]_vars

\* the instant a stored expiry text denotes, or -1 when it denotes none
ExpiryOf(e) == IF e.text = "rfc3339" THEN e.sec * Second ELSE -1

\* add stores the expiry of now plus the minutes for the path, over any
\* earlier entry, and touches no other entry
AddStores ==
  last.op = "add" =>
    /\ DOMAIN dcfg.TempExcludes = DOMAIN last.before \cup {last.path}
    /\ ExpiryOf(dcfg.TempExcludes[last.path]) <= now + last.minutes * Minute
    /\ ExpiryOf(dcfg.TempExcludes[last.path]) > now + last.minutes * Minute - Second
    /\ \A q \in DOMAIN last.before \ {last.path} : dcfg.TempExcludes[q] = last.before[q]

\* a path with a stored expiry is excluded exactly before it, at every time
ExcludedUntilExpiry ==
  /\ \A p \in DOMAIN dcfg.TempExcludes, t \in ExclTimes :
        ExpiryOf(dcfg.TempExcludes[p]) >= 0 =>
          (IsTemporarilyExcluded(dcfg, p, t) <=> t < ExpiryOf(dcfg.TempExcludes[p]))
  /\ last.op = "add" => IsTemporarilyExcluded(dcfg, last.path, now)
  /\ last.op = "query" =>
        (last.out <=> /\ last.path \in DOMAIN dcfg.TempExcludes
                      /\ now < ExpiryOf(dcfg.TempExcludes[last.path]))

\* clean_expired has removed the entries of the set gone, those alone, and
\* has returned whether there was one
CleanRemoved(gone) ==
  /\ DOMAIN dcfg.TempExcludes = DOMAIN last.before \ gone
  /\ \A q \in DOMAIN dcfg.TempExcludes : dcfg.TempExcludes[q] = last.before[q]
  /\ last.out <=> gone /= {}

\* C7 as claimed: after add the path is excluded before the stored expiry and
\* not from it on, add overwrites, and clean_expired removes exactly the
\* entries whose expiry has passed and returns whether it removed one.
C7_ExclusionExpiry ==
  /\ AddStores
  /\ ExcludedUntilExpiry
  /\ last.op = "clean" =>
        CleanRemoved({p \in DOMAIN last.before :
                        ExpiryOf(last.before[p]) >= 0 /\ ExpiryOf(last.before[p]) < now})

\* C7 amended: clean_expired removes exactly the entries whose expiry has
\* passed and the entries whose expiry does not parse.
C7_ExclusionExpiryOrUnparsable ==
  /\ AddStores
  /\ ExcludedUntilExpiry
  /\ last.op = "clean" =>
        CleanRemoved({p \in DOMAIN last.before : ExpiryOf(last.before[p]) < now})

\* clean_expired has removed an entry past its expiry and kept one at the very
\* instant of its expiry
C7_Witness ==
  /\ last.op = "clean" /\ last.out
  /\ \E p \in DOMAIN last.before :
       ExpiryOf(last.before[p]) >= 0 /\ p \notin DOMAIN dcfg.TempExcludes
  /\ \E p \in DOMAIN dcfg.TempExcludes : ExpiryOf(dcfg.TempExcludes[p]) = now

\* the lock state a user or an earlier run may have left
InitLock ==
  /\ Quiet
  /\ now = StartClock
  /\ dcfg = NoConfig
  /\ tools \in [chattr : BOOLEAN, lsattr : BOOLEAN, chmod : BOOLEAN]
  /\ immutable \in SUBSET {Zshrc, InitLua}
  /\ perm \in {CleanFS.perm, [CleanFS.perm EXCEPT ![Zshrc] = 444]}
  /\ last = [op |-> "init", path |-> NoPath, err |-> FALSE, was |-> perm, after |-> NoPath]

LockUnchanged == <<now, tools, disk, dcfg, active, watches, timer, dpc, events, cli, sv>>

\* locker.Lock(p); was keeps the modes the files had before it
DoLock(p) ==
  /\ \E r \in {Lock(tools, FS, p)} :
       /\ immutable' = r.fs.immutable
       /\ perm' = r.fs.perm
       /\ last' = [op |-> "lock", path |-> p, err |-> r.err, was |-> perm, after |-> NoPath]
  /\ UNCHANGED LockUnchanged

\* locker.Unlock(p); after is the path that the step before has locked
\* without error, if that step was a Lock
DoUnlock(p) ==
  /\ \E r \in {Unlock(tools, FS, p)} :
       /\ immutable' = r.fs.immutable
       /\ perm' = r.fs.perm
       /\ last' = [op |-> "unlock", path |-> p, err |-> r.err, was |-> last.was,
                   after |-> IF last.op = "lock" /\ ~last.err THEN last.path ELSE NoPath]
  /\ UNCHANGED LockUnchanged

LockPaths == {Zshrc, Nvim, InitLua, Gone, ConfigPath}

NextLock ==
  \/ \E p \in LockPaths : DoLock(p)
  \/ \E p \in LockPaths : DoUnlock(p)

SpecLock == InitLock /\ [][NextLock]_vars

\* C9: in the state a lock has left, a second lock of the path changes
\* nothing and fails only if the first did; the same for unlock; whether
\* chattr works or fails and the fallback takes over.
C9_Idempotent ==
  /\ last.op = "lock" =>
        LET again == Lock(tools, FS, last.path)
        IN  /\ again.fs = FS /\ (again.err => last.err)
            /\ IsLocked(tools, again.fs, last.path) = IsLocked(tools, FS, last.path)
  /\ last.op = "unlock" =>
        LET again == Unlock(tools, FS, last.path)
        IN  /\ again.fs = FS /\ (again.err => last.err)
            /\ IsLocked(tools, again.fs, last.path) = IsLocked(tools, FS, last.path)

\* a directory was locked by the fallback, chattr failing
C9_Witness ==
  /\ last.op = "lock" /\ last.path = Nvim /\ ~last.err
  /\ ~tools.chattr /\ tools.chmod
  /\ perm[InitLua] = 444

-----------------------------------------------------------------------------
(* Config.Save and Load at the grain of their system calls, by the daemon   *)
(* and a command saving while another command loads.  sv holds the config   *)
(* directory: the inode each of the two names refers to, the content of     *)
(* every inode, the inodes carrying the immutable attribute, and for each   *)
(* process its place in the code, its open descriptor and its wasLocked.    *)

Savers == {"daemon", "cli"}
Loader == "reader"

NoInode == 0

\* the content of a file between its truncation by open and the write
Truncated == "truncated"

SvStart(locked) ==
  [cfgIno |-> 1, tmpIno |-> NoInode, data |-> <<"old">>,
   immut |-> IF locked THEN {1} ELSE {},
   pc |-> [p \in Savers \cup {Loader} |-> "idle"],
   fd |-> [p \in Savers \cup {Loader} |-> NoInode],
   wasLocked |-> [p \in Savers |-> FALSE],
   started |-> 0, seen |-> "none"]

InitSave ==
  /\ disk = [ok |-> FALSE, cfg |-> NoConfig]
  /\ active = FALSE
  /\ watches = {}
  /\ timer = 0
  /\ dpc = "stopped"
  /\ events = {}
  /\ cli = CliIdle
  /\ now = StartClock
  /\ dcfg = NoConfig
  /\ tools = [chattr |-> TRUE, lsattr |-> TRUE, chmod |-> TRUE]
  /\ immutable = {}
  /\ perm = CleanFS.perm
  /\ sv \in {SvStart(FALSE), SvStart(TRUE)}
  /\ last = [op |-> "init", proc |-> "none"]

SaveUnchanged ==
  <<now, tools, immutable, perm, disk, dcfg, active, watches, timer, dpc, events, cli>>

\* locker.IsLocked(configPath) and, when locked, locker.Unlock(configPath)
SaveUnlock(P) ==
  /\ sv.pc[P] = "idle" /\ sv.started < MaxSaves
  /\ sv' = [sv EXCEPT !.pc[P] = "open",
                      !.wasLocked[P] = sv.cfgIno \in sv.immut,
                      !.immut = @ \ {sv.cfgIno},
                      !.started = @ + 1]
  /\ last' = [op |-> "unlock", proc |-> P]
  /\ UNCHANGED SaveUnchanged

\* os.WriteFile(tmpPath, ...): open with O_WRONLY|O_CREATE|O_TRUNC
SaveOpen(P) ==
  /\ sv.pc[P] = "open"
  /\ IF sv.tmpIno = NoInode
     THEN sv' = [sv EXCEPT !.pc[P] = "write",
                           !.data = Append(@, Truncated),
                           !.tmpIno = Len(sv.data) + 1,
                           !.fd[P] = Len(sv.data) + 1]
     ELSE sv' = [sv EXCEPT !.pc[P] = "write",
                           !.data[sv.tmpIno] = Truncated,
                           !.fd[P] = sv.tmpIno]
  /\ last' = [op |-> "open", proc |-> P]
  /\ UNCHANGED SaveUnchanged

\* os.WriteFile(tmpPath, ...) fails before it has opened the file (no space,
\* no permission): Save returns the error
SaveWriteFails(P) ==
  /\ sv.pc[P] = "open"
  /\ sv' = [sv EXCEPT !.pc[P] = "idle"]
  /\ last' = [op |-> "write-failed", proc |-> P]
  /\ UNCHANGED SaveUnchanged

\* os.WriteFile(tmpPath, ...): write the data and close
SaveWrite(P) ==
  /\ sv.pc[P] = "write"
  /\ sv' = [sv EXCEPT !.pc[P] = "rename", !.data[sv.fd[P]] = P, !.fd[P] = NoInode]
  /\ last' = [op |-> "write", proc |-> P]
  /\ UNCHANGED SaveUnchanged

\* os.Rename(tmpPath, configPath): fails when the temp name is gone or the
\* config file is immutable, and Save returns
SaveRename(P) ==
  /\ sv.pc[P] = "rename"
  /\ IF sv.tmpIno = NoInode \/ sv.cfgIno \in sv.immut
     THEN sv' = [sv EXCEPT !.pc[P] = "idle"]
     ELSE sv' = [sv EXCEPT !.pc[P] = IF sv.wasLocked[P] THEN "relock" ELSE "idle",
                           !.cfgIno = sv.tmpIno,
                           !.tmpIno = NoInode]
  /\ last' = [op |-> "rename", proc |-> P]
  /\ UNCHANGED SaveUnchanged

\* locker.Lock(configPath) when the file was locked before
SaveRelock(P) ==
  /\ sv.pc[P] = "relock"
  /\ sv' = [sv EXCEPT !.pc[P] = "idle", !.immut = @ \cup {sv.cfgIno}]
  /\ last' = [op |-> "relock", proc |-> P]
  /\ UNCHANGED SaveUnchanged

\* Load: os.ReadFile(configPath) opens the file
LoadOpen ==
  /\ sv.pc[Loader] = "idle"
  /\ sv' = [sv EXCEPT !.pc[Loader] = "read", !.fd[Loader] = sv.cfgIno]
  /\ last' = [op |-> "load-open", proc |-> Loader]
  /\ UNCHANGED SaveUnchanged

\* Load: os.ReadFile(configPath) reads it, json.Unmarshal takes what was read
LoadRead ==
  /\ sv.pc[Loader] = "read"
  /\ sv' = [sv EXCEPT !.pc[Loader] = "idle", !.seen = sv.data[sv.fd[Loader]],
                      !.fd[Loader] = NoInode]
  /\ last' = [op |-> "load-read", proc |-> Loader]
  /\ UNCHANGED SaveUnchanged

NextSave ==
  \/ \E P \in Savers : SaveUnlock(P)
  \/ \E P \in Savers : SaveOpen(P)
  \/ \E P \in Savers : SaveWriteFails(P)
  \/ \E P \in Savers : SaveWrite(P)
  \/ \E P \in Savers : SaveRename(P)
  \/ \E P \in Savers : SaveRelock(P)
  \/ LoadOpen
  \/ LoadRead

SpecSave == InitSave /\ [][NextSave]_vars

\* C10: what a Load has read is the whole old config or the whole config of
\* one of the savers, never a file cut short, also with two savers at once.
C10_LoadSeesWhole ==
  last.op = "load-read" => sv.seen \in {"old"} \cup Savers

-----------------------------------------------------------------------------
(* Properties of the daemon *)

\* the regular files a lock or an unlock of p acts on
FilesOf(p) == IF IsDir(p) THEN Range(CollectFilesRecursively(p)) ELSE {p}

\* no file of p carries the attribute or the fallback's read-only mode
Writable(p) == \A f \in FilesOf(p) : f \notin immutable /\ perm[f] /= 444

\* the directories above p, nearest first up to the root
RECURSIVE Ancestors(_)
Ancestors(p) == IF Len(p) <= 1 THEN {} ELSE {Parent(p)} \cup Ancestors(Parent(p))

\* C1: after a full enforcement sweep inside the window, IsLocked reports
\* locked every managed path that exists, is not excluded and was locked
\* without error by the primitive or its fallback.
C1_SweepLeavesLocked ==
  (last.op \in {"activate", "sweep"} /\ IsWithinWorkHours(dcfg, now)) =>
    \A p \in Range(dcfg.LockedPaths) :
      (Exists(p) /\ ~IsTemporarilyExcluded(dcfg, p, now) /\ p \in last.locked)
        => IsLocked(tools, FS, p).locked

Malformed(c) ==
  \E m \in MalformedConfigs :
    /\ c.StartTime = m.StartTime /\ c.EndTime = m.EndTime
    /\ c.CronSchedule = m.CronSchedule

\* instants of every day of the week, on and between minute boundaries
SampleTimes ==
  {At(d, h, m, s, u) : d \in 0..6, h \in {0, 8, 23}, m \in {0, 1, 59}, s \in {0, 59},
                       u \in {0, SubSec - 1}}

\* C6: with a schedule that does not parse, IsWithinWorkHours is false at
\* every time, the daemon is never Active and never hands a path to Lock.
C6_MalformedNeverLocks ==
  Malformed(dcfg) =>
    /\ \A t \in SampleTimes \cup {now} : ~IsWithinWorkHours(dcfg, t)
    /\ ~active
    /\ last.invoked = {} /\ last.locked = {}
    /\ last.op \notin {"activate", "activate-noload", "sweep", "sweep-noload", "event"}

\* the timer of a daemon whose end time does not parse has fired at the start
\* time, on a weekday
C6_Witness ==
  /\ Malformed(dcfg) /\ last.op = "idle"
  /\ dcfg.StartTime = T0800 /\ dcfg.CronSchedule = NoCron
  /\ Weekday(now) = 1 /\ HourOf(now) = 8 /\ MinuteOf(now) = 0

\* C3: once temp-unlock of a managed path has completed beside an Active
\* daemon, no event handling and no sweep of the daemon hands the path to Lock
\* before the exclusion expires.
C3_NoRelockBeforeExpiry ==
  (cli.pc = "done" /\ now < cli.expiry /\ active /\ last.op \in {"event", "sweep"})
    => cli.path \notin last.locked

\* the managed paths an event at e is about: e itself and the ones above it
RelatedPaths(e) ==
  {m \in Range(dcfg.LockedPaths) :
     ~IsTemporarilyExcluded(dcfg, m, now) /\ (e = m \/ m \in Ancestors(e))}

\* C8 as claimed: while Active, an event at e notifies about and relocks
\* exactly the managed, non-excluded paths that are e or lie above e.
C8_EventRelocksRelated ==
  last.op = "event" =>
    (last.notified = RelatedPaths(last.ev) /\ last.invoked = RelatedPaths(last.ev))

\* C8 amended: the same, except that an event at the config file, at the
\* config directory or under it notifies about nothing and relocks nothing,
\* and that of the paths notified about those still on disk are relocked.
C8_EventRelocksRelatedButConfig ==
  last.op = "event" =>
    LET own == last.ev = ConfigDir \/ ConfigDir \in Ancestors(last.ev)
        expected == IF own THEN {} ELSE RelatedPaths(last.ev)
    IN  last.notified = expected /\ last.invoked = {m \in expected : Exists(m)}

\* an event under /n2 was handled while /n, a string prefix of it, is managed
C8_Witness ==
  /\ last.op = "event" /\ last.ev = Nvim2X
  /\ Nvim \in Range(dcfg.LockedPaths)
  /\ last.invoked = {Nvim2X}

-----------------------------------------------------------------------------
(* The schedule evaluator over every kind of schedule: ranges, times that do *)
(* not parse, cron expressions that fire, that never fire, that do not parse *)

T1700 == <<"1", "7", ":", "0", "0">>

WindowTexts == {T0800, T0802, T1700, <<"0", "8", "0", "2">>, <<"2", "4", ":", "0", "0">>, <<>>}

CronTexts ==
  { <<"0-1", "8", "*", "*", "1-5">>,
    <<"*", "8-16", "*", "*", "1-5">>,
    <<"0", "8", "*", "*", "*">>,
    <<"0", "0", "30", "2", "*">>,
    <<"60", "8", "*", "*", "1-5">>,
    <<"0-1", "8", "*", "1-5">> }

WindowConfigs ==
  {Cfg(<<Zshrc>>, st, en, NoCron) : st \in WindowTexts, en \in WindowTexts}
    \cup {Cfg(<<Zshrc>>, <<>>, <<>>, cr) : cr \in CronTexts}

InitWindow ==
  /\ Quiet
  /\ tools = [chattr |-> TRUE, lsattr |-> TRUE, chmod |-> TRUE]
  /\ immutable = {}
  /\ perm = CleanFS.perm
  /\ now \in SchedTimes
  /\ dcfg \in WindowConfigs
  /\ last = [op |-> "init", out |-> FALSE, delta |-> 0]

\* a call of TimeUntilWorkHours at the instant now
EvalUntil ==
  /\ last.op = "init"
  /\ last' = [last EXCEPT !.op = "TimeUntilWorkHours", !.delta = TimeUntilWorkHours(dcfg, now)]
  /\ UNCHANGED <<now, tools, immutable, perm, disk, dcfg, active, watches, timer, dpc,
                 events, cli, sv>>

NextWindow ==
  \/ EvalWithin
  \/ EvalUntil

SpecWindow == InitWindow /\ [][NextWindow]_vars

\* the minute of the day a time-of-day text stands for, or -1 when it is none
MinuteOfDay(s) == IF ParseHHMM(s).ok THEN ParseHHMM(s).h * 60 + ParseHHMM(s).m ELSE -1

\* a range of two times of day, the end later than the start
WellFormedRange(c) ==
  /\ c.CronSchedule = NoCron
  /\ MinuteOfDay(c.StartTime) >= 0
  /\ MinuteOfDay(c.StartTime) < MinuteOfDay(c.EndTime)

\* the earliest instant at or after t that is the start time on a day from
\* Monday to Friday
NextStartFrom(c, t) ==
  MinOf({x \in {d * Day + MinuteOfDay(c.StartTime) * Minute :
                  d \in (t \div Day)..(t \div Day + 7)} :
           x >= t /\ Weekday(x) \in 1..5})

\* outside the window of a well-formed range the result leads to the next
\* start time on an enforcement day, where the window is open; inside the
\* window (either mode) the result is 0
UntilLeadsToWindow ==
  /\ (WellFormedRange(dcfg) /\ ~IsWithinWorkHours(dcfg, now)) =>
        /\ last.delta > 0
        /\ now + last.delta = NextStartFrom(dcfg, now)
        /\ IsWithinWorkHours(dcfg, now + last.delta)
  /\ IsWithinWorkHours(dcfg, now) => last.delta = 0

\* the start time of a range, or the cron expression, does not parse
StartMalformed(c) ==
  IF c.CronSchedule = NoCron THEN MinuteOfDay(c.StartTime) < 0
  ELSE ~CronParse(c.CronSchedule).ok

\* the end time alone of a range does not parse
EndAloneMalformed(c) ==
  c.CronSchedule = NoCron /\ MinuteOfDay(c.StartTime) >= 0 /\ MinuteOfDay(c.EndTime) < 0

\* C17: outside the window of a well-formed range TimeUntilWorkHours
\* is the delta to the next start time on an enforcement day, where the window
\* is open; inside the window it is 0; for a malformed schedule it is the
\* fixed fallback of one hour.
C17_UntilNextWindow ==
  last.op = "TimeUntilWorkHours" =>
    /\ UntilLeadsToWindow
    /\ (StartMalformed(dcfg) \/ EndAloneMalformed(dcfg)) => last.delta = Hour

\* the current minute is a trigger of the schedule
TriggerMinute(sch, t) ==
  /\ ~sch.never
  /\ Weekday(t) \in sch.dows
  /\ HourOf(t) \in sch.hours
  /\ MinuteOf(t) \in sch.minutes

\* C18: in cron mode IsWithinWorkHours is true exactly when the first trigger
\* after the minute before the current minute is not after the current
\* minute, that is, when the current minute is a trigger of the schedule.
C18_CronWindow ==
  (last.op = "IsWithinWorkHours" /\ dcfg.CronSchedule /= NoCron
     /\ CronParse(dcfg.CronSchedule).ok) =>
    (last.out <=> TriggerMinute(CronParse(dcfg.CronSchedule), now))

-----------------------------------------------------------------------------
(* The lock primitive and its fallback on one file *)

\* C16: Lock and Unlock of an existing file fail exactly when chattr fails and
\* the chmod of the fallback fails too; when chattr fails and the fallback
\* succeeds they return no error and the file carries the fallback's mode.
C16_FallbackDecides ==
  (last.op \in {"lock", "unlock"} /\ last.path \in RegularFiles) =>
    LET fallbackFails == ~tools.chmod \/ last.path \in immutable
    IN  /\ last.err <=> (~tools.chattr /\ fallbackFails)
        /\ (~tools.chattr /\ ~last.err) =>
              perm[last.path] = IF last.op = "lock" THEN 444 ELSE 644
        /\ tools.chattr => (last.path \in immutable <=> last.op = "lock")

\* chattr failed on a file, chmod succeeded, and Lock returned no error
C16_Witness ==
  /\ last.op = "lock" /\ last.path = Zshrc /\ ~last.err
  /\ ~tools.chattr /\ tools.chmod
  /\ perm[Zshrc] = 444 /\ Zshrc \notin immutable

-----------------------------------------------------------------------------
(* The list of managed paths under AddPath and RemovePath *)

ListPaths == {ConfigPath, Zshrc, Nvim, Gone}

InitPaths ==
  /\ Quiet
  /\ tools = [chattr |-> TRUE, lsattr |-> TRUE, chmod |-> TRUE]
  /\ immutable = {}
  /\ perm = CleanFS.perm
  /\ now = StartClock
  /\ dcfg \in {Cfg(l, T0800, T0802, NoCron) : l \in {<<>>, <<ConfigPath>>, <<ConfigPath, Zshrc>>}}
  /\ last = [op |-> "init", path |-> NoPath, before |-> dcfg.LockedPaths]

PathsUnchanged ==
  <<now, tools, immutable, perm, disk, active, watches, timer, dpc, events, cli, sv>>

\* cfg.AddPath(p)
PathAdd(p) ==
  /\ dcfg' = AddPath(dcfg, p)
  /\ last' = [op |-> "add", path |-> p, before |-> dcfg.LockedPaths]
  /\ UNCHANGED PathsUnchanged

\* cfg.RemovePath(p)
PathRemove(p) ==
  /\ dcfg' = RemovePath(dcfg, p)
  /\ last' = [op |-> "remove", path |-> p, before |-> dcfg.LockedPaths]
  /\ UNCHANGED PathsUnchanged

NextPaths ==
  \/ \E p \in ListPaths : PathAdd(p)
  \/ \E p \in ListPaths : PathRemove(p)

SpecPaths == InitPaths /\ [][NextPaths]_vars

NoDuplicates(list) == \A i, j \in 1..Len(list) : list[i] = list[j] => i = j

\* the place of p in a list that holds it
IndexOf(list, p) == CHOOSE i \in 1..Len(list) : list[i] = p

\* C19: the list never holds a path twice; AddPath of a path in the list
\* leaves the list as it was and of another path puts it at the end;
\* RemovePath(p) leaves no p and keeps the other paths, in their order.
C19_PathsUnique ==
  LET list == dcfg.LockedPaths
  IN  /\ NoDuplicates(list)
      /\ last.op = "add" =>
            /\ InList(last.before, last.path) => list = last.before
            /\ ~InList(last.before, last.path) =>
                  /\ Len(list) = Len(last.before) + 1
                  /\ list[Len(list)] = last.path
                  /\ \A i \in 1..Len(last.before) : list[i] = last.before[i]
      /\ last.op = "remove" =>
            /\ Range(list) = Range(last.before) \ {last.path}
            /\ \A a, b \in Range(list) :
                  IndexOf(list, a) < IndexOf(list, b)
                    <=> IndexOf(last.before, a) < IndexOf(last.before, b)

\* a path in the middle of a list of three was removed
C19_Witness ==
  /\ last.op = "remove" /\ Len(last.before) = 3 /\ last.before[2] = last.path
  /\ Len(dcfg.LockedPaths) = 2

-----------------------------------------------------------------------------
(* Properties of the commands *)

\* a step changes the persisted config or the lock state of a file
CmdTouches == disk' /= disk \/ immutable' /= immutable \/ perm' /= perm

\* a failed check leaves the persisted config and the lock state alone
RefusalTouchesNothing == cli'.pc = "refused" => ~CmdTouches

C13_TempUnlockGuarded ==
  [][cli'.cmd = "temp-unlock" =>
       /\ RefusalTouchesNothing
       /\ cli'.pc = "loaded" =>
             (InList(disk.cfg.LockedPaths, cli'.path) /\ cli'.typed /\ ~CmdTouches)
       /\ CmdTouches =>
             (cli.typed /\ InList(cli.cfg.LockedPaths, cli.path) /\ cli.pc \in {"loaded", "saved"})
       /\ (cli.pc = "loaded" /\ cli'.pc = "saved") =>
             \A f \in Range(PathsToUnlock(cli.path)) : f \in DOMAIN disk'.cfg.TempExcludes]_vars

\* the challenge failed for a listed file that is locked, and stays locked
C13_Witness ==
  /\ cli.cmd = "temp-unlock" /\ cli.pc = "refused" /\ cli.asked
  /\ cli.path = Zshrc /\ perm[Zshrc] = 444

\* C14: the config that runInit saves over an existing one lists the config
\* file and every path listed before, and no path twice.
C14_ReinitKeepsPaths ==
  [][(cli.cmd = "init" /\ disk' /= disk) =>
       /\ disk'.ok
       /\ Range(disk'.cfg.LockedPaths) = Range(disk.cfg.LockedPaths) \cup {ConfigPath}
       /\ \A i \in 1..Len(disk'.cfg.LockedPaths), j \in 1..Len(disk'.cfg.LockedPaths) :
             disk'.cfg.LockedPaths[i] = disk'.cfg.LockedPaths[j] => i = j]_vars

\* runInit has replaced a config with a cron schedule that did not list the
\* config file (dcfg still holds that config)
C14_Witness ==
  /\ cli.cmd = "init" /\ cli.pc = "service"
  /\ disk.cfg.LockedPaths = <<ConfigPath, Zshrc, Nvim>>
  /\ disk.cfg.CronSchedule = NoCron /\ disk.cfg.EndTime = <<"1", "7", ":", "0", "0">>
  /\ dcfg.CronSchedule /= NoCron

\* C15: runInit replaces the config while the config file is locked, by the
\* attribute or by the fallback's mode, only after the typing challenge.
C15_ReinitNeedsChallenge ==
  [][(cli.cmd = "init" /\ disk' /= disk
        /\ (ConfigPath \in immutable \/ perm[ConfigPath] = 444)) => cli.typed]_vars

-----------------------------------------------------------------------------
(* Properties of the daemon beside the commands *)

\* C11: what a command has saved stays in the persisted config while the
\* daemon sweeps: the path added is in locked_paths, the path removed is not,
\* the exclusions of a temp-unlock are there until they expire.
C11_NoLostUpdate ==
  /\ (cli.cmd = "add" /\ cli.pc \in {"saved", "restart", "done"}) =>
        InList(disk.cfg.LockedPaths, cli.path)
  /\ (cli.cmd = "rm" /\ cli.pc \in {"saved", "restart", "done"}) =>
        ~InList(disk.cfg.LockedPaths, cli.path)
  /\ (cli.cmd = "temp-unlock" /\ cli.pc \in {"saved", "done"} /\ now < cli.expiry) =>
        \A f \in Range(PathsToUnlock(cli.path)) : f \in DOMAIN disk.cfg.TempExcludes

\* C20: a reload signal replaces d.cfg by the config on disk and, on an Active
\* daemon, makes the watch list the managed paths of that config that exist;
\* it leaves Active or Inactive as it was, the Inactive daemon's watch list,
\* every file's lock state, the config on disk and the timer alone, and the
\* loop goes on.
C20_ReloadOnlyReloads ==
  [][last'.op = "reload" =>
       /\ dcfg' = disk.cfg
       /\ active => watches' = {p \in Range(disk.cfg.LockedPaths) : Exists(p)}
       /\ ~active => watches' = watches
       /\ active' = active
       /\ immutable' = immutable /\ perm' = perm
       /\ disk' = disk /\ timer' = timer /\ events' = events
       /\ dpc = "running" /\ dpc' = "running"]_vars

\* an Active daemon has reloaded after add saved a new path and watches it
C20_Witness ==
  /\ last.op = "reload" /\ active
  /\ cli.cmd = "add" /\ cli.pc \in {"saved", "restart"} /\ cli.path = Nvim2X
  /\ Nvim2X \in watches /\ InList(dcfg.LockedPaths, Nvim2X)

-----------------------------------------------------------------------------
(* Properties of the daemon on a config file that is damaged and rewritten *)

\* the managed paths of c on disk that no exclusion covers at t
Enforceable(c, t) ==
  {p \in Range(c.LockedPaths) : Exists(p) /\ ~IsTemporarilyExcluded(c, p, t)}

\* a step of the loop's events case taking e from the buffer
Takes(e) == e \in events /\ events' = events \ {e}

\* the event path is the config file, the config directory or a path under it
OwnEvent(e) == e = ConfigPath \/ e = ConfigDir \/ ConfigDir \in Ancestors(e)

\* C21: a reload signal whose config.Load fails leaves d.cfg, Active or
\* Inactive and the watch list as they were, and the loop goes on.
C21_ReloadFailureKeeps ==
  [][(last'.op \in {"reload", "reload-failed"} /\ ~disk.ok) =>
       /\ last'.op = "reload-failed"
       /\ dcfg' = dcfg /\ active' = active /\ watches' = watches
       /\ immutable' = immutable /\ perm' = perm /\ timer' = timer
       /\ dpc' = "running"]_vars

\* an Active daemon with watches has had the signal while the file did not parse
C21_Witness ==
  /\ last.op = "reload-failed" /\ ~disk.ok
  /\ active /\ Zshrc \in watches

\* C22: when the timer fires on an Inactive daemon inside the window, the
\* daemon is Active after the step, watches every managed path (that exists),
\* has handed every managed path that exists and is not excluded to Lock in
\* that step, and has armed the timer at the 30 seconds of the sweep.
C22_ActivationSweeps ==
  last.op \in {"activate", "activate-noload"} =>
    /\ active
    /\ watches = {p \in Range(dcfg.LockedPaths) : Exists(p)}
    /\ last.invoked = Enforceable(dcfg, now)
    /\ last.rearm = SweepInterval /\ timer = now + SweepInterval

\* C23: an event taken from the buffer while the daemon is Inactive locks no
\* path, notifies about none, and leaves d.cfg, the config on disk, the watch
\* list, the state and the timer as they were.
C23_InactiveEventIgnored ==
  [][(~active /\ \E e \in EventPaths : Takes(e)) =>
       /\ last'.notified = {} /\ last'.invoked = {} /\ last'.locked = {}
       /\ immutable' = immutable /\ perm' = perm
       /\ dcfg' = dcfg /\ disk' = disk /\ watches' = watches
       /\ active' = active /\ timer' = timer /\ dpc' = dpc]_vars

\* an event of a managed file, buffered while Active, was taken after the
\* daemon had deactivated and unlocked the file
C23_Witness ==
  /\ last.op = "event-inactive" /\ ~active
  /\ InList(dcfg.LockedPaths, last.ev)
  /\ Writable(last.ev)

\* C24: an event at the config file, at the config directory or under it,
\* taken while Active, relocks nothing and notifies about nothing, also when
\* the config file or the config directory is a managed path.
C24_OwnEventsIgnored ==
  [][(active /\ \E e \in EventPaths : Takes(e) /\ OwnEvent(e)) =>
       /\ last'.notified = {} /\ last'.invoked = {} /\ last'.locked = {}
       /\ immutable' = immutable /\ perm' = perm]_vars

\* an event at the config file was taken by an Active daemon that manages the
\* config file, while the file was writable
C24_Witness ==
  /\ last.op = "event" /\ last.ev = ConfigPath /\ active
  /\ InList(dcfg.LockedPaths, ConfigPath)
  /\ Writable(ConfigPath)

\* the exclusion of p has an expiry that parses and lies after t
LiveExclusion(c, p, t) ==
  /\ p \in DOMAIN c.TempExcludes
  /\ c.TempExcludes[p].text = "rfc3339"
  /\ t < c.TempExcludes[p].sec * Second

\* C25: IsTemporarilyExcluded is false for a path without entry, with an
\* expiry that does not parse, or with an expiry not after now; so a sweep
\* hands every such managed path on disk to Lock, and so does the handling of
\* an event at the path or under it.
C25_StaleNeverSkips ==
  /\ \A p \in Range(dcfg.LockedPaths) \cup DOMAIN dcfg.TempExcludes :
        ~LiveExclusion(dcfg, p, now) => ~IsTemporarilyExcluded(dcfg, p, now)
  /\ last.op \in {"sweep", "activate"} =>
        \A p \in Range(dcfg.LockedPaths) :
          (Exists(p) /\ ~LiveExclusion(dcfg, p, now)) => p \in last.invoked
  /\ (last.op = "event" /\ ~OwnEvent(last.ev)) =>
        \A p \in Range(dcfg.LockedPaths) :
          (Exists(p) /\ ~LiveExclusion(dcfg, p, now)
             /\ (last.ev = p \/ p \in Ancestors(last.ev))) => p \in last.invoked

\* an event at a file whose exclusion in d.cfg does not parse was handled,
\* and the file handed to Lock
C25_Witness ==
  /\ last.op = "event" /\ last.ev = Zshrc
  /\ Zshrc \in DOMAIN dcfg.TempExcludes /\ dcfg.TempExcludes[Zshrc] = Garbage
  /\ Zshrc \in last.invoked

\* C26: a sweep whose config.Load fails keeps d.cfg and hands every managed
\* path of it that exists and is not excluded to Lock.
C26_SweepDegrades ==
  [][last'.op = "sweep-noload" =>
       (dcfg' = dcfg /\ last'.invoked = Enforceable(dcfg, now))]_vars

\* C27: a missing path, a failing Lock or Unlock and a failing addWatch stop
\* neither the batch nor the daemon: a sweep hands every enforceable path to
\* Lock, an activation watches every managed path on disk, a deactivation and
\* a shutdown leave every managed path on disk writable when the tools can
\* unlock at all, and the loop ends on a terminate or interrupt signal only.
C27_FailuresNeverStop ==
  [][/\ last'.op \in {"sweep", "activate"} => last'.invoked = Enforceable(dcfg', now)
     /\ last'.op \in {"activate", "activate-noload"} =>
           watches' = {p \in Range(dcfg.LockedPaths) : Exists(p)}
     /\ (last'.op \in {"deactivate", "terminate"} /\ (tools.chattr \/ tools.chmod)) =>
           \A p \in Range(dcfg.LockedPaths) :
             Exists(p) => \A f \in FilesOf(p) : f \notin immutable' /\ perm'[f] /= 444
     /\ dpc' /= dpc => (dpc = "running" /\ dpc' = "stopped" /\ last'.op = "terminate")
     /\ last'.op = "watcher-error" =>
           (dpc' = "running" /\ active' = active /\ watches' = watches /\ timer' = timer)]_vars

\* a sweep found the first of its paths missing and could lock none of the
\* others, and still handed them all to Lock
C27_Witness ==
  /\ last.op = "sweep"
  /\ dcfg.LockedPaths = <<ConfigDir, Gone, Nvim2X>>
  /\ last.invoked = {ConfigDir, Nvim2X} /\ last.locked = {}

\* C29: a sweep replaces the config file exactly when CleanExpiredExcludes
\* removed an exclusion from the config it loaded; otherwise the config on
\* disk is as before.
C29_SweepWritesIffCleaned ==
  [][last'.op \in {"sweep", "sweep-noload"} =>
       /\ last'.saved <=> (disk.ok /\ CleanExpiredExcludes(disk.cfg, now).cleaned)
       /\ ~last'.saved => disk' = disk]_vars

-----------------------------------------------------------------------------
(* Properties of the exclusions that temp-unlock saves *)

\* C28: every key of the exclusions in the persisted config is a managed
\* path (no command of these runs removes a managed path).
C28_ExclusionKeysManaged ==
  \A k \in DOMAIN disk.cfg.TempExcludes : InList(disk.cfg.LockedPaths, k)

-----------------------------------------------------------------------------
(* internal/challenge: Run, one step per line read from standard input.     *)
(* A text is a tuple of characters; "LF" and "CR" stand for the newline and *)
(* the carriage return.                                                      *)

maxRetriesPerLine == 3

\* the four lines of the statement, each cut down to a few of its letters
statement ==
  << <<"I", " ", "A">>, <<"A", "N", "D", " ", "P">>, <<"I", " ", "R">>,
     <<"A", "N", "D", " ", "I">> >>

ToLower(ch) ==
  CASE ch = "I" -> "i" [] ch = "A" -> "a" [] ch = "N" -> "n" [] ch = "D" -> "d"
    [] ch = "P" -> "p" [] ch = "R" -> "r" [] OTHER -> ch

\* strings.TrimSuffix
TrimSuffix(str, suffix) ==
  IF Len(str) >= Len(suffix) /\ SubSeq(str, Len(str) - Len(suffix) + 1, Len(str)) = suffix
  THEN SubSeq(str, 1, Len(str) - Len(suffix))
  ELSE str

\* what the user may enter for a line
TypingKinds ==
  {"exact", "exact-crlf", "lower-case", "space-after", "space-before", "two-cr",
   "next-line", "empty", "eof", "exact-eof"}

\* reader.ReadString('\n') for each kind of entry: the text up to and with
\* the newline, or what was there at the end of the input and an error
ReadString(kind, line, next) ==
  CASE kind = "exact" -> [text |-> line \o <<"LF">>, err |-> FALSE]
    [] kind = "exact-crlf" -> [text |-> line \o <<"CR", "LF">>, err |-> FALSE]
    [] kind = "lower-case" ->
         [text |-> [i \in 1..Len(line) |-> ToLower(line[i])] \o <<"LF">>, err |-> FALSE]
    [] kind = "space-after" -> [text |-> line \o <<" ", "LF">>, err |-> FALSE]
    [] kind = "space-before" -> [text |-> <<" ">> \o line \o <<"LF">>, err |-> FALSE]
    [] kind = "two-cr" -> [text |-> line \o <<"CR", "CR", "LF">>, err |-> FALSE]
    [] kind = "next-line" -> [text |-> next \o <<"LF">>, err |-> FALSE]
    [] kind = "empty" -> [text |-> <<"LF">>, err |-> FALSE]
    [] kind = "eof" -> [text |-> <<>>, err |-> TRUE]
    [] OTHER -> [text |-> line, err |-> TRUE]

\* one pass of the inner loop keeping the count of retries from line to line
RunLineKeepingRetries(st, rd) ==
  IF rd.err THEN [st EXCEPT !.pc = "failed"]
  ELSE LET input == TrimSuffix(TrimSuffix(rd.text, <<"LF">>), <<"CR">>)
       IN  IF input = statement[st.i]
           THEN IF st.i < Len(statement)
                THEN [st EXCEPT !.i = @ + 1]
                ELSE [st EXCEPT !.pc = "ok"]
           ELSE IF st.retries + 1 >= maxRetriesPerLine
                THEN [st EXCEPT !.retries = @ + 1, !.pc = "failed"]
                ELSE [st EXCEPT !.retries = @ + 1]

\* one pass of the inner loop of Run on line st.i: read, trim, compare, count
RunLine(st, rd) ==
  IF rd.err THEN [st EXCEPT !.pc = "failed"]
  ELSE LET input == TrimSuffix(TrimSuffix(rd.text, <<"LF">>), <<"CR">>)
       IN  IF input = statement[st.i]
           THEN IF st.i < Len(statement)
                THEN [st EXCEPT !.i = @ + 1, !.retries = 0]
                ELSE [st EXCEPT !.pc = "ok"]
           ELSE IF st.retries + 1 >= maxRetriesPerLine
                THEN [st EXCEPT !.retries = @ + 1, !.pc = "failed"]
                ELSE [st EXCEPT !.retries = @ + 1]

\* Run has printed its warning and is about to ask for the first line
InitChallenge ==
  /\ disk = [ok |-> FALSE, cfg |-> NoConfig]
  /\ dcfg = NoConfig
  /\ active = FALSE /\ watches = {} /\ timer = 0 /\ dpc = "stopped" /\ events = {}
  /\ sv = SvIdle
  /\ tools = [chattr |-> TRUE, lsattr |-> TRUE, chmod |-> TRUE]
  /\ immutable = {}
  /\ perm = CleanFS.perm
  /\ now = StartClock
  /\ cli = [cmd |-> "challenge", pc |-> "reading", i |-> 1, retries |-> 0]
  /\ last = [op |-> "init", kind |-> "none", eof |-> FALSE,
             tries |-> [i \in 1..Len(statement) |-> 0],
             exact |-> [i \in 1..Len(statement) |-> FALSE]]

\* the user enters something for the line asked; last keeps, per line, how
\* many entries were made and whether one of them was the line as printed
ChallengeRead(kind) ==
  /\ cli.pc = "reading"
  /\ \E rd \in {ReadString(kind, statement[cli.i],
                           statement[(cli.i % Len(statement)) + 1])} :
       cli' = RunLine(cli, rd)
  /\ last' = [op |-> "read", kind |-> kind, eof |-> kind \in {"eof", "exact-eof"},
              tries |-> IF kind \in {"eof", "exact-eof"} THEN last.tries
                        ELSE [last.tries EXCEPT ![cli.i] = @ + 1],
              exact |-> IF kind \in {"exact", "exact-crlf"}
                        THEN [last.exact EXCEPT ![cli.i] = TRUE]
                        ELSE last.exact]
  /\ UNCHANGED <<now, tools, immutable, perm, disk, dcfg, active, watches, timer, dpc,
                 events, sv>>

NextChallenge == \E kind \in TypingKinds : ChallengeRead(kind)

SpecChallenge == InitChallenge /\ [][NextChallenge]_vars

\* C30: the challenge succeeds exactly when each of the four lines, in order,
\* was entered as printed within three entries for that line; the count
\* starts again at each line, and the third entry that differs from the line
\* fails the challenge.
C30_ChallengeExact ==
  LET n == Len(statement)
  IN  /\ n = 4
      /\ cli.pc = "ok" <=> \A i \in 1..n : last.exact[i]
      /\ \A i \in 1..n : last.tries[i] <= maxRetriesPerLine
      /\ \A i \in 1..n : last.exact[i] => \A j \in 1..i : last.exact[j]
      /\ cli.pc = "reading" =>
            /\ ~last.exact[cli.i] /\ last.tries[cli.i] < maxRetriesPerLine
            /\ \A j \in 1..n : j > cli.i => last.tries[j] = 0
            /\ \A j \in 1..n : j < cli.i => last.exact[j]
      /\ (cli.pc = "failed" /\ ~last.eof) =>
            (last.tries[cli.i] = maxRetriesPerLine /\ ~last.exact[cli.i])

\* every line was entered as printed at the third entry, after two that
\* differed
C30_Witness ==
  /\ cli.pc = "ok"
  /\ \A i \in 1..Len(statement) : last.tries[i] = maxRetriesPerLine

-----------------------------------------------------------------------------
(* Properties of the end of the window beside a command that adds a path *)

\* C31: once the daemon has deactivated, every path of the persisted lock
\* list that exists is writable, a path that add appended and locked after
\* the daemon's last config.Load too.
C31_DeactivateUnlocksPersisted ==
  last.op = "deactivate" =>
    \A p \in Range(disk.cfg.LockedPaths) : Exists(p) => Writable(p)

-----------------------------------------------------------------------------
(* Properties of the lock primitive beside the query *)

\* C32: after a Lock of an existing file that returned no error IsLocked
\* reports the file locked, and after an Unlock that returned no error
\* IsLocked reports the path unlocked, whichever of chattr, lsattr and chmod
\* work.
C32_QueryAgrees ==
  /\ (last.op = "lock" /\ ~last.err /\ last.path \in RegularFiles) =>
        IsLocked(tools, FS, last.path).locked
  /\ (last.op = "unlock" /\ ~last.err) => ~IsLocked(tools, FS, last.path).locked

-----------------------------------------------------------------------------
(* Properties of the sweeps after a temp-unlock *)

\* the stored expiry of k has come at t
Expired(c, k, t) ==
  /\ k \in DOMAIN c.TempExcludes
  /\ ParseRFC3339(c.TempExcludes[k]).ok
  /\ ParseRFC3339(c.TempExcludes[k]).t <= t

\* k is a managed path of c or lies under one, and no exclusion covers that
\* managed path at t
Managed(c, k, t) ==
  \E m \in Range(c.LockedPaths) :
    (m = k \/ m \in Ancestors(k)) /\ ~LiveExclusion(c, m, t)

\* C33: a periodic sweep of the Active daemon leaves locked every path on disk
\* whose exclusion in the config it loads has expired by then, so the first
\* sweep from the expiry on locks the path again (where a tool to lock with
\* works).
C33_ExpiredRelocked ==
  [][(last'.op = "sweep" /\ (tools.chattr \/ tools.chmod)) =>
       \A k \in DOMAIN disk.cfg.TempExcludes :
         (Expired(disk.cfg, k, now) /\ Exists(k) /\ Managed(disk.cfg, k, now)) =>
           /\ \A f \in FilesOf(k) : f \in immutable' \/ perm'[f] = 444
           /\ \A m \in Range(disk.cfg.LockedPaths) : m = k => m \in last'.locked]_vars

\* temp-unlock of /z has completed, and the sweep at the instant of the
\* expiry has locked the file again
C33_Witness ==
  /\ last.op = "sweep" /\ active
  /\ cli.cmd = "temp-unlock" /\ cli.pc = "done" /\ cli.path = Zshrc
  /\ now = cli.expiry
  /\ Zshrc \in last.locked /\ ~Writable(Zshrc)

-----------------------------------------------------------------------------
(* Properties of the cron window *)

\* C34: with a cron expression that parses, IsWithinWorkHours is true only
\* when the current minute is a trigger of the schedule, and it is false for
\* a schedule that never triggers.
C34_CronOnlyOnTrigger ==
  (last.op = "IsWithinWorkHours" /\ dcfg.CronSchedule /= NoCron
     /\ CronParse(dcfg.CronSchedule).ok) =>
    /\ last.out => TriggerMinute(CronParse(dcfg.CronSchedule), now)
    /\ CronParse(dcfg.CronSchedule).never => ~last.out

-----------------------------------------------------------------------------
(* Properties of the loop's timer *)

\* C35: every step of the timer case leaves the one timer armed, at now plus
\* the delay of its Reset, and outside the window that delay is positive.
C35_TimerRearmedLater ==
  last.op \in {"activate", "activate-noload", "sweep", "sweep-noload", "deactivate", "idle"} =>
    /\ timer = now + last.rearm
    /\ last.op \in {"deactivate", "idle"} => last.rearm > 0

-----------------------------------------------------------------------------
(* Properties of the watch list *)

\* C36: after every step of the timer case that leaves the daemon Active, the
\* watch list is the set of the paths of d.cfg.LockedPaths that exist, the
\* paths that the sweep's config.Load has just brought in too.
C36_WatchesFollowConfig ==
  (active /\ last.op \in {"activate", "activate-noload", "sweep", "sweep-noload"}) =>
    watches = {p \in Range(dcfg.LockedPaths) : Exists(p)}

-----------------------------------------------------------------------------
(* The daemon under reload signals that bring in another schedule: the      *)
(* config file is rewritten with a window that opens earlier or later, or   *)
(* stops parsing                                                            *)

T0801 == <<"0", "8", ":", "0", "1">>

\* windows from 08:00 and from 08:01, both to 08:02
ReloadConfigs ==
  { Cfg(<<ConfigPath, Zshrc>>, T0800, T0802, NoCron),
    Cfg(<<ConfigPath, Zshrc>>, T0801, T0802, NoCron) }

ReloadEvents == {Zshrc}

\* the daemon has just been constructed, as in Init, on one of these configs
InitReload ==
  /\ now = StartClock
  /\ tools = [chattr |-> TRUE, lsattr |-> TRUE, chmod |-> TRUE]
  /\ disk \in {[ok |-> TRUE, cfg |-> c] : c \in ReloadConfigs}
  /\ dcfg = disk.cfg
  /\ immutable = {} /\ perm = CleanFS.perm
  /\ active = FALSE
  /\ watches = {}
  /\ timer = now
  /\ dpc = "running"
  /\ events = {}
  /\ cli = CliIdle
  /\ last = Did("init", NoPath, {}, {}, {}, {}, 0)
  /\ sv = SvIdle

NextReload ==
  \/ DaemonStep
  \/ WatcherError
  \/ Tick
  \/ \E e \in ReloadEvents : FsChange(e)
  \/ ConfigDamaged
  \/ \E c \in ReloadConfigs : ConfigRewritten(c)

SpecReload == InitReload /\ [][NextReload]_vars

\* C38: an Inactive daemon does not sleep past the opening of the window of
\* d.cfg: whenever that window is open, also one that a reload signal has
\* brought in, the timer is due, so that the activation is the loop's next
\* timer step.
C38_ReloadWakes ==
  (dpc = "running" /\ ~active /\ IsWithinWorkHours(dcfg, now)) => now >= timer

\* C37: an Inactive daemon has an empty watch list, in every state, and
\* d.active changes in the steps of the timer case only: the activation and
\* the deactivation, never the handling of an event, of a watcher error or of
\* a reload signal.
C37_InactiveWatchesNothing ==
  /\ [](~active => watches = {})
  /\ [][active' /= active =>
          last'.op \in {"activate", "activate-noload", "deactivate"}]_vars

\* the daemon has deactivated at the end of a window in which it held /z
\* locked, and watches nothing
C37_Witness ==
  /\ last.op = "deactivate" /\ ~active /\ watches = {}
  /\ Zshrc \in last.before
  /\ InList(dcfg.LockedPaths, Zshrc)

-----------------------------------------------------------------------------
(* Properties of a lock followed by its unlock *)

\* C39: an Unlock without error right after a Lock without error of the same
\* path leaves every file of the path with the permission bits it had before
\* the Lock, by the attribute and by the fallback.
C39_UnlockRestoresMode ==
  (last.op = "unlock" /\ ~last.err /\ last.after = last.path) =>
    \A f \in FilesOf(last.path) : perm[f] = last.was[f]

-----------------------------------------------------------------------------
(* Properties of Save and the lock of the config file *)

\* C40: when Save returns, with or without error, and no other Save is under
\* way, the config file is locked if Save found it locked and unlocked if
\* Save found it unlocked.
C40_SaveKeepsLockState ==
  \A P \in Savers :
    (/\ last.proc = P /\ last.op \in {"write-failed", "rename", "relock"}
     /\ \A Q \in Savers : sv.pc[Q] = "idle")
      => (sv.cfgIno \in sv.immut <=> sv.wasLocked[P])

====
